---- MODULE Spec2Model ----
(***************************************************************************)
(* Model of the linguistics RAG document chunker                           *)
(* (linguistics/rag/chunker.py): Chunk validation, deterministic chunk ids,*)
(* markdown structure parsing, structure-aware chunking with paragraph     *)
(* overlap and token-only sliding-window chunking.                         *)
(*                                                                         *)
(* Text is a sequence of atoms.  An atom is either a word (with the        *)
(* punctuation and spacing attached to it), one of the markdown markers    *)
(* "#".."######", ":::", "----", or the newline character LF.  The         *)
(* tokenizer (tiktoken, external) maps every word or marker to one token   *)
(* and every run of newline characters to "LFLF" tokens, one per pair,     *)
(* plus one "LF" token for an odd remainder.                               *)
(*                                                                         *)
(* The second part models the book retriever (linguistics/rag/retriever.py)*)
(* over the vector store client (linguistics/database/chroma_client.py):   *)
(* RetrievalResult, search, bulk_search, get_by_id, get_by_filters,        *)
(* _build_where_clause and _normalize_scores.  Scores and distances are    *)
(* exact fractions; the store is a collaborator whose answers (rows,       *)
(* failure, embedding service unavailable) are chosen per call.            *)
(*                                                                         *)
(* The third part models the services around them: two callers searching   *)
(* through one retriever, CollectionSeeder (linguistics/database/seed.py), *)
(* LinguisticsDB.upsert, EmbeddingService._embed_with_retry                *)
(* (linguistics/database/embeddings.py), MemoryService and                 *)
(* ConversationMemory (linguistics/memory).  Each has a specification of   *)
(* its own over the shared variables; the others stay idle in it.          *)
(***************************************************************************)
EXTENDS Integers, Sequences, FiniteSets, TLC

\* ------------------------------------------------------------------ bounds
MaxLines == 6          \* lines of a structured document
MaxTokLines == 4       \* lines of a document chunked in token-only mode
MaxMaxTokens == 3      \* largest max_tokens configured
MaxOverlap == 2        \* largest overlap_tokens configured
MaxMinTokens == 3      \* largest min_tokens configured
MaxPosition == 2       \* largest position handed to generate_chunk_id
MaxTokenCount == 2     \* largest token_count handed to Chunk(...)
ScoreScale == 3        \* scores and distances are multiples of 1/ScoreScale
MaxRows == 3           \* rows of one store answer; largest max_results
MaxQueries == 2        \* queries of one bulk_search call
MaxFilterItems == 2    \* entries of a filters dict
MaxDocs == 4           \* documents handed to seed_collection
MaxBatchSize == 2      \* largest batch_size of a CollectionSeeder
MaxRetries == 2        \* largest max_retries (seeder, embedding service)
MaxUpsert == 2         \* entries of a list handed to LinguisticsDB.upsert
MaxHistory == 2        \* messages added to one conversation
MaxLimit == 3          \* largest limit asked of get_conversation_history
MaxStored == 2         \* messages of a session in the store at the start

\* ------------------------------------------------------- Optional values
None == <<>>
Some(x) == <<x>>

\* ---------------------------------------------------------------- strings
LF == "LF"

Digit == <<"0", "1", "2", "3", "4", "5", "6", "7", "8", "9">>

RECURSIVE IntToStr(_)
\* str(position) inside an f-string: decimal digits, no sign (position >= 0)
IntToStr(n) ==
  IF n < 10 THEN <<Digit[n + 1]>>
  ELSE IntToStr(n \div 10) \o <<Digit[(n % 10) + 1]>>

DigitValue(d) == (CHOOSE k \in 1..10 : Digit[k] = d) - 1

RECURSIVE StrToInt(_)
StrToInt(s) ==
  IF Len(s) = 1 THEN DigitValue(s[1])
  ELSE 10 * StrToInt(SubSeq(s, 1, Len(s) - 1)) + DigitValue(s[Len(s)])

\* str.strip() of a text is empty: the text holds nothing but newlines
IsBlank(text) == \A k \in 1..Len(text) : text[k] = LF

RECURSIVE Join(_, _)
\* sep.join(parts)
Join(parts, sep) ==
  IF Len(parts) = 0 THEN <<>>
  ELSE IF Len(parts) = 1 THEN parts[1]
  ELSE parts[1] \o sep \o Join(Tail(parts), sep)

RECURSIVE Split(_)
\* content.split('\n'): always at least one (possibly empty) line
Split(text) ==
  IF \A k \in 1..Len(text) : text[k] # LF THEN <<text>>
  ELSE LET p == CHOOSE k \in 1..Len(text) :
                  text[k] = LF /\ \A j \in 1..(k - 1) : text[j] # LF
       IN <<SubSeq(text, 1, p - 1)>> \o Split(SubSeq(text, p + 1, Len(text)))

\* -------------------------------------------------------------- tokenizer
RECURSIVE encode(_)
\* self.encoding.encode(text)
encode(text) ==
  IF Len(text) = 0 THEN <<>>
  ELSE IF text[1] # LF THEN <<text[1]>> \o encode(Tail(text))
  ELSE IF Len(text) >= 2 /\ text[2] = LF
       THEN <<"LFLF">> \o encode(SubSeq(text, 3, Len(text)))
       ELSE <<"LF">> \o encode(Tail(text))

RECURSIVE decode(_)
\* self.encoding.decode(tokens)
decode(toks) ==
  IF Len(toks) = 0 THEN <<>>
  ELSE IF toks[1] = "LFLF" THEN <<LF, LF>> \o decode(Tail(toks))
  ELSE <<toks[1]>> \o decode(Tail(toks))

count_tokens(text) == Len(encode(text))

\* ------------------------------------------------------------------ Chunk
\* __post_init__ with the token_count test written "< 0"
Chunk_post_init_lenient(id, content, token_count) ==
  IF IsBlank(content) THEN "ValueError"
  ELSE IF Len(id) = 0 THEN "ValueError"
  ELSE IF token_count < 0 THEN "ValueError"
  ELSE "ok"

\* Chunk.__post_init__: the error raised by the dataclass validation, or
\* "ok" when the Chunk object comes into existence
Chunk_post_init(id, content, token_count) ==
  IF IsBlank(content) THEN "ValueError"
  ELSE IF Len(id) = 0 THEN "ValueError"
  ELSE IF token_count <= 0 THEN "ValueError"
  ELSE "ok"

Chunk(id, content, metadata, token_count) ==
  [id |-> id, content |-> content, metadata |-> metadata,
   token_count |-> token_count]

\* -------------------------------------------------------------- chunk ids
\* hashlib.sha256(...).hexdigest()[:12], idealised as collision free: an
\* injective rendering of the hashed text in which "_" never occurs (a hex
\* digest holds no underscore)
sha256_hex12(hash_input) ==
  [k \in 1..Len(hash_input) |->
     IF hash_input[k] = "_" THEN "5f" ELSE hash_input[k]]

\* Python truthiness of an Optional[str]
Truthy(opt) == opt # None /\ Len(opt[1]) > 0

\* generate_chunk_id with a one-based position suffix
generate_chunk_id_onebased(content, position, chapter) ==
  LET hash_input == content \o <<"_">> \o IntToStr(position)
                    \o (IF Truthy(chapter) THEN <<"_">> \o chapter[1]
                        ELSE <<>>)
      content_hash == sha256_hex12(hash_input)
  IN <<"chunk", "_">> \o content_hash \o <<"_">> \o IntToStr(position + 1)

\* generate_chunk_id that leaves the chapter out of the hashed text
generate_chunk_id_nochapter(content, position, chapter) ==
  LET hash_input == content \o <<"_">> \o IntToStr(position)
      content_hash == sha256_hex12(hash_input)
  IN <<"chunk", "_">> \o content_hash \o <<"_">> \o IntToStr(position)

generate_chunk_id(content, position, chapter) ==
  LET hash_input == content \o <<"_">> \o IntToStr(position)
                    \o (IF Truthy(chapter) THEN <<"_">> \o chapter[1]
                        ELSE <<>>)
      content_hash == sha256_hex12(hash_input)
  IN <<"chunk", "_">> \o content_hash \o <<"_">> \o IntToStr(position)

\* the decimal number after the last "_" of an id
IdPosition(id) ==
  LET p == CHOOSE k \in 1..Len(id) :
             id[k] = "_" /\ \A j \in (k + 1)..Len(id) : id[j] # "_"
  IN StrToInt(SubSeq(id, p + 1, Len(id)))

\* ------------------------------------------------------ markdown structure
HashMarks == <<"#", "##", "###", "####", "#####", "######">>

\* heading_pattern  ^(#{1,6})\s+(.+)$
IsHeadingLine(line) ==
  Len(line) >= 2 /\ \E k \in 1..6 : line[1] = HashMarks[k]

HeadingLevel(line) == CHOOSE k \in 1..6 : line[1] = HashMarks[k]

\* section_pattern  ^:::\s*(\w+)
IsSectionLine(line) == Len(line) >= 2 /\ line[1] = ":::"

\* separator_pattern  ^-{4,}$
IsSeparatorLine(line) == line = <<"----">>

\* first index >= i that is past the end or holds an empty line
ParagraphEnd(lines, i) ==
  CHOOSE j \in i..(Len(lines) + 1) :
    /\ (j = Len(lines) + 1 \/ Len(lines[j]) = 0)
    /\ \A k \in i..(j - 1) : Len(lines[k]) # 0

RECURSIVE ParseFrom(_, _, _, _, _)
\* the while loop of parse_markdown_structure from line i (1-based) on
ParseFrom(lines, i, current_chapter, current_section, current_level) ==
  IF i > Len(lines) THEN <<>>
  ELSE LET line == lines[i] IN
    IF Len(line) = 0 \/ IsSeparatorLine(line)
    THEN ParseFrom(lines, i + 1, current_chapter, current_section,
                   current_level)
    ELSE IF IsHeadingLine(line)
    THEN LET level == HeadingLevel(line)
             title == Tail(line)
             chapter == IF level <= 2 THEN Some(title) ELSE current_chapter
             section == IF level <= 2 THEN None ELSE Some(title)
         IN <<[type |-> "heading", level |-> level, title |-> title,
               chapter |-> chapter, section |-> section,
               line_start |-> i - 1, line_end |-> i - 1]>>
            \o ParseFrom(lines, i + 1, chapter, section, level)
    ELSE IF IsSectionLine(line)
    THEN LET name == <<line[2]>>
         IN <<[type |-> "section", name |-> name,
               chapter |-> current_chapter, section |-> Some(name),
               line_start |-> i - 1, line_end |-> i - 1]>>
            \o ParseFrom(lines, i + 1, current_chapter, Some(name),
                         current_level)
    ELSE LET j == ParagraphEnd(lines, i)
             paragraph_lines == SubSeq(lines, i, j - 1)
         IN <<[type |-> "paragraph",
               content |-> Join(paragraph_lines, <<LF>>),
               chapter |-> current_chapter, section |-> current_section,
               level |-> current_level,
               line_start |-> i - 1, line_end |-> j - 2]>>
            \o ParseFrom(lines, j + 1, current_chapter, current_section,
                         current_level)

parse_markdown_structure(content) ==
  ParseFrom(Split(content), 1, None, None, 0)

\* element.get('content', element.get('title', ''))
element_content(element) ==
  IF "content" \in DOMAIN element THEN element.content
  ELSE IF "title" \in DOMAIN element THEN element.title
  ELSE <<>>

\* element.get('level', 0)
element_level(element) ==
  IF "level" \in DOMAIN element THEN element.level ELSE 0

\* ---------------------------------------------------------------- metadata
\* name.lower().replace(" ", "_") on the words of a title
Lower(w) == CASE w = "A" -> "a" [] w = "B" -> "b" [] OTHER -> w

TagOf(name) == Join([k \in 1..Len(name) |-> <<Lower(name[k])>>], <<"_">>)

create_chunk_metadata(chapter, section, level, position, chunk_type) ==
  LET base == [chunk_type |-> chunk_type, position |-> position,
               heading_level |-> level, language |-> "ru",
               content_type |-> "lesson",
               difficulty_level |-> "intermediate",
               topic |-> "linguistics"]
  IN IF Truthy(chapter) /\ Truthy(section)
     THEN base @@ [chapter |-> chapter[1], section |-> section[1],
                   tags |-> <<TagOf(chapter[1]), TagOf(section[1])>>]
     ELSE IF Truthy(chapter)
     THEN base @@ [chapter |-> chapter[1], tags |-> <<TagOf(chapter[1])>>]
     ELSE IF Truthy(section)
     THEN base @@ [section |-> section[1], tags |-> <<TagOf(section[1])>>]
     ELSE base

\* metadata.get('chapter')
metadata_chapter(metadata) ==
  IF "chapter" \in DOMAIN metadata THEN Some(metadata.chapter) ELSE None

\* metadata.get('section')
metadata_section(metadata) ==
  IF "section" \in DOMAIN metadata THEN Some(metadata.section) ELSE None

\* ------------------------------------------------------------ chunk buffer
RECURSIVE SumTokens(_)
\* sum(self.count_tokens(c) for c in buffer)
SumTokens(buffer) ==
  IF Len(buffer) = 0 THEN 0
  ELSE count_tokens(buffer[1]) + SumTokens(Tail(buffer))

RECURSIVE OverlapLen_strict(_, _, _)
\* the overlap walk with the budget test written ">="
OverlapLen_strict(content_buffer, k, budget) ==
  IF k = 0 THEN 0
  ELSE IF count_tokens(content_buffer[k]) >= budget THEN 0
  ELSE 1 + OverlapLen_strict(content_buffer, k - 1,
                             budget - count_tokens(content_buffer[k]))

RECURSIVE OverlapLen(_, _, _)
\* number of trailing buffer entries _create_overlap_content keeps: walk
\* the buffer backwards from entry k with overlap_tokens_so_far collected
OverlapLen(content_buffer, k, budget) ==
  IF k = 0 THEN 0
  ELSE IF count_tokens(content_buffer[k]) > budget THEN 0
  ELSE 1 + OverlapLen(content_buffer, k - 1,
                      budget - count_tokens(content_buffer[k]))

create_overlap_content(content_buffer, overlap_tokens) ==
  LET n == OverlapLen(content_buffer, Len(content_buffer), overlap_tokens)
  IN SubSeq(content_buffer, Len(content_buffer) - n + 1,
            Len(content_buffer))

\* _create_chunk_from_buffer: metadata is None (here <<>>) until the first
\* heading or overflow; metadata.get on None raises AttributeError
create_chunk_from_buffer(content_buffer, metadata, token_count, position) ==
  IF metadata = None THEN [err |-> "AttributeError"]
  ELSE LET content == Join(content_buffer, <<LF, LF>>)
           chapter == metadata_chapter(metadata[1])
           id == generate_chunk_id(content, position, chapter)
       IN [err |-> Chunk_post_init(id, content, token_count),
           chunk |-> Chunk(id, content, metadata[1], token_count)]

\* ------------------------------------------------------------------- state
VARIABLES
  max_tokens, min_tokens, overlap_tokens,  \* BookChunker configuration
  content, respect_structure,              \* arguments of chunk_content
  pc,                   \* "start", "structure", "tokens", "done", "raised"
  err,                  \* the exception that ended the run, or "none"
  chunks,               \* the chunks yielded so far, in order
  structure, next_element,                 \* parsed outline, loop index
  position, current_chunk_content, current_metadata, current_tokens,
  tokens, i,                               \* token-only mode
  run, first_ids,       \* which run over the same input; ids of run 1
  buffer_elements,      \* outline index of every buffer entry
  chunk_elements,       \* per chunk: outline indexes of its entries
  windows,              \* per chunk (token-only): <<i, end_idx>>
  last,                 \* the loop step taken last and what it saw
  id_calls,             \* the last two direct generate_chunk_id calls
  objects,              \* the Chunk objects built by direct construction
  ctor_last,            \* the last direct Chunk(...) call and its outcome
  similarity_threshold, max_results,       \* BookRetriever configuration
  r_op,                 \* the retriever operation called last, or "none"
  r_args,               \* its arguments
  db_env,               \* what the vector store did during that call
  db_calls,             \* the store calls that call issued, in order
  r_err,                \* the exception the call raised, or "none"
  r_value,              \* the value the call returned
  s_env,                \* concurrent searches: the store they share
  s_pc,                 \* per caller: "idle", "waiting" or "done"
  s_args,               \* per caller: the arguments of its search
  s_request,            \* per caller: the db.query call in flight
  s_out,                \* per caller: what its search raised or returned
  s_trace,              \* the callers in the order their steps ran
  batch_size, max_retries,                 \* CollectionSeeder configuration
  seed_args,            \* arguments of seed_collection and the db's state
  seed_pc,              \* "start", "batch", "done" or "raised"
  batch_start, attempt, \* loop variables of seed_collection/_process_batch
  successful, failed,   \* the counters of seed_collection
  attempts,             \* every write attempt made so far, in order
  seed_result,          \* the exception raised or the pair returned
  u_call,               \* the last LinguisticsDB.upsert call and its outcome
  e_call,               \* the last _embed_with_retry call and its outcome
  conversations,        \* MemoryService.conversations
  m_added,              \* per id: the messages added since the last clear
  m_last,               \* the last MemoryService call and its outcome
  session_cache,        \* ConversationMemory._session_cache
  persisted,            \* per session: the user's messages in the store
  cm_last               \* the last ConversationMemory call and its outcome

config == <<max_tokens, min_tokens, overlap_tokens>>
call == <<content, respect_structure>>
structure_locals == <<structure, next_element, current_chunk_content,
                      current_metadata, current_tokens, buffer_elements,
                      chunk_elements>>
token_locals == <<tokens, i, windows>>
api_vars == <<id_calls, objects, ctor_last>>
retriever_config == <<similarity_threshold, max_results>>
retriever_call == <<r_op, r_args, db_env, db_calls, r_err, r_value>>
retriever_vars == <<retriever_config, retriever_call>>
search_calls == <<s_env, s_pc, s_args, s_request, s_out, s_trace>>
seed_vars == <<batch_size, max_retries, seed_args, seed_pc, batch_start,
               attempt, successful, failed, attempts, seed_result>>
memory_vars == <<conversations, m_added, m_last>>
conv_vars == <<session_cache, persisted, cm_last>>
service_vars == <<search_calls, seed_vars, u_call, e_call, memory_vars,
                  conv_vars>>
vars == <<config, call, pc, err, chunks, position, structure_locals,
          token_locals, run, first_ids, last, api_vars, retriever_vars,
          service_vars>>

\* ---------------------------------------------------------------- inputs
SeqsUpTo(S, n) == UNION {[1..k -> S] : k \in 1..n}

LineAlphabet == {<<>>, <<"##", "A">>, <<":::", "s">>, <<"x">>}

TokenLineAlphabet == {<<>>, <<"x">>, <<"x", "y">>}

StructuredDocs == {Join(ls, <<LF>>) : ls \in SeqsUpTo(LineAlphabet, MaxLines)}

TokenDocs ==
  {Join(ls, <<LF>>) : ls \in SeqsUpTo(TokenLineAlphabet, MaxTokLines)}

NoStep == [op |-> "none", buffer |-> <<>>, element |-> <<>>]

NoCall == [id |-> <<>>, content |-> <<>>, token_count |-> 0, err |-> "none"]

ApiIdle ==
  /\ id_calls = <<>>
  /\ objects = {}
  /\ ctor_last = NoCall

NoRetrieverCall ==
  /\ r_op = "none"
  /\ r_args = <<>>
  /\ db_env = <<>>
  /\ db_calls = <<>>
  /\ r_err = "none"
  /\ r_value = <<>>

Callers == {1, 2}

SearchCallsIdle ==
  /\ s_env = <<>>
  /\ s_pc = [p \in Callers |-> "idle"]
  /\ s_args = [p \in Callers |-> <<>>]
  /\ s_request = [p \in Callers |-> <<>>]
  /\ s_out = [p \in Callers |-> <<>>]
  /\ s_trace = <<>>

SeedIdle ==
  /\ batch_size = 1
  /\ max_retries = 0
  /\ seed_args = <<>>
  /\ seed_pc = "start"
  /\ batch_start = 0
  /\ attempt = 0
  /\ successful = 0
  /\ failed = 0
  /\ attempts = <<>>
  /\ seed_result = <<>>

MemIds == {"c1", "c2"}
Sessions == {"s"}
NoMemoryCall == [op |-> "none"]

\* MemoryService.__init__
MemoryIdle ==
  /\ conversations = <<>>
  /\ m_added = [id \in MemIds |-> <<>>]
  /\ m_last = NoMemoryCall

\* ConversationMemory.__init__ on an empty store
ConvIdle ==
  /\ session_cache = <<>>
  /\ persisted = [s \in Sessions |-> <<>>]
  /\ cm_last = NoMemoryCall

DirectCallsIdle ==
  /\ u_call = <<>>
  /\ e_call = <<>>
  /\ MemoryIdle
  /\ ConvIdle

ServiceIdle ==
  /\ SearchCallsIdle
  /\ SeedIdle
  /\ DirectCallsIdle

RetrieverIdle ==
  /\ similarity_threshold = [num |-> 0, den |-> 1]
  /\ max_results = 1
  /\ NoRetrieverCall

Fresh ==
  /\ pc = "start"
  /\ err = "none"
  /\ chunks = <<>>
  /\ structure = <<>>
  /\ next_element = 1
  /\ position = 0
  /\ current_chunk_content = <<>>
  /\ current_metadata = None
  /\ current_tokens = 0
  /\ tokens = <<>>
  /\ i = 0
  /\ buffer_elements = <<>>
  /\ chunk_elements = <<>>
  /\ windows = <<>>
  /\ last = NoStep

Init ==
  /\ max_tokens \in 1..MaxMaxTokens
  /\ overlap_tokens \in 0..MaxOverlap
  /\ respect_structure \in BOOLEAN
  \* _chunk_by_structure never reads min_tokens
  /\ min_tokens \in (IF respect_structure THEN {0} ELSE 0..MaxMinTokens)
  /\ content \in (IF respect_structure THEN StructuredDocs ELSE TokenDocs)
  /\ run = 1
  /\ first_ids = <<>>
  /\ Fresh
  /\ ApiIdle
  /\ RetrieverIdle
  /\ ServiceIdle

\* ------------------------------------------------------------ chunk_content
Raise(e) ==
  /\ pc' = "raised"
  /\ err' = e

\* chunk_content on an empty or whitespace-only document: no chunk
chunk_content_empty ==
  /\ pc = "start"
  /\ IsBlank(content)
  /\ pc' = "done"
  /\ UNCHANGED <<api_vars, retriever_vars, service_vars>>
  /\ UNCHANGED <<config, call, err, chunks, position, structure_locals,
                 token_locals, run, first_ids, last>>

\* entry of _chunk_by_structure with the position counter kept on the
\* chunker instead of being reset for every run
chunk_by_structure_begin_keeps_position ==
  /\ pc = "start"
  /\ ~IsBlank(content)
  /\ respect_structure
  /\ structure' = parse_markdown_structure(content)
  /\ next_element' = 1
  /\ current_chunk_content' = <<>>
  /\ current_metadata' = None
  /\ current_tokens' = 0
  /\ buffer_elements' = <<>>
  /\ pc' = "structure"
  /\ UNCHANGED <<api_vars, retriever_vars, service_vars>>
  /\ UNCHANGED <<config, call, err, chunks, token_locals, run, first_ids,
                 last, chunk_elements, position>>

\* chunk_content, respect_structure: entry of _chunk_by_structure
chunk_by_structure_begin ==
  /\ pc = "start"
  /\ ~IsBlank(content)
  /\ respect_structure
  /\ structure' = parse_markdown_structure(content)
  /\ next_element' = 1
  /\ position' = 0
  /\ current_chunk_content' = <<>>
  /\ current_metadata' = None
  /\ current_tokens' = 0
  /\ buffer_elements' = <<>>
  /\ pc' = "structure"
  /\ UNCHANGED <<api_vars, retriever_vars, service_vars>>
  /\ UNCHANGED <<config, call, err, chunks, token_locals, run, first_ids,
                 last, chunk_elements>>

\* chunk_content, not respect_structure: entry of _chunk_by_tokens
chunk_by_tokens_begin ==
  /\ pc = "start"
  /\ ~IsBlank(content)
  /\ ~respect_structure
  /\ tokens' = encode(content)
  /\ position' = 0
  /\ i' = 0
  /\ pc' = "tokens"
  /\ UNCHANGED <<api_vars, retriever_vars, service_vars>>
  /\ UNCHANGED <<config, call, err, chunks, structure_locals, windows, run,
                 first_ids, last>>

\* --------------------------------------------------- _chunk_by_structure
StepOf(op, element) ==
  [op |-> op, buffer |-> current_chunk_content,
   element |-> element_content(element)]

\* one iteration of the for loop on a heading element
structure_heading ==
  /\ pc = "structure"
  /\ next_element <= Len(structure)
  /\ structure[next_element].type = "heading"
  /\ LET element == structure[next_element]
         title == element_content(element)
         element_tokens == count_tokens(title)
         flush == Len(current_chunk_content) > 0
         r == create_chunk_from_buffer(current_chunk_content,
                                       current_metadata, current_tokens,
                                       position)
         position1 == IF flush THEN position + 1 ELSE position
         chunks1 == IF flush THEN Append(chunks, r.chunk) ELSE chunks
         elements1 == IF flush THEN Append(chunk_elements, buffer_elements)
                      ELSE chunk_elements
         heading_metadata ==
           create_chunk_metadata(element.chapter, element.section,
                                 element.level, position1, "heading")
         heading_id == generate_chunk_id(title, position1, element.chapter)
         heading_err == Chunk_post_init(heading_id, title, element_tokens)
         heading_chunk == Chunk(heading_id, title, heading_metadata,
                                element_tokens)
     IN /\ last' = StepOf("heading", element)
        /\ IF flush /\ r.err # "ok"
           THEN /\ Raise(r.err)
                /\ UNCHANGED <<chunks, position, structure_locals>>
           ELSE IF heading_err # "ok"
           THEN /\ Raise(heading_err)
                /\ chunks' = chunks1
                /\ chunk_elements' = elements1
                /\ position' = position1
                /\ UNCHANGED <<structure, next_element,
                               current_chunk_content, current_metadata,
                               current_tokens, buffer_elements>>
           ELSE /\ chunks' = Append(chunks1, heading_chunk)
                /\ chunk_elements' = Append(elements1, <<next_element>>)
                /\ position' = position1 + 1
                /\ current_chunk_content' = <<>>
                /\ buffer_elements' = <<>>
                /\ current_metadata' =
                     Some(create_chunk_metadata(element.chapter,
                                                element.section,
                                                element.level,
                                                position1 + 1, "content"))
                /\ current_tokens' = 0
                /\ next_element' = next_element + 1
                /\ UNCHANGED <<pc, err, structure>>
  /\ UNCHANGED <<api_vars, retriever_vars, service_vars>>
  /\ UNCHANGED <<config, call, token_locals, run, first_ids>>

\* one iteration on a paragraph or section element that does not fit
structure_overflow ==
  /\ pc = "structure"
  /\ next_element <= Len(structure)
  /\ structure[next_element].type # "heading"
  /\ LET element == structure[next_element]
         text == element_content(element)
         element_tokens == count_tokens(text)
         flush == Len(current_chunk_content) > 0
         r == create_chunk_from_buffer(current_chunk_content,
                                       current_metadata, current_tokens,
                                       position)
         position1 == IF flush THEN position + 1 ELSE position
         keep == overlap_tokens > 0 /\ flush
         overlap_content ==
           IF keep
           THEN create_overlap_content(current_chunk_content, overlap_tokens)
           ELSE <<>>
         kept == Len(overlap_content)
     IN /\ current_tokens + element_tokens > max_tokens
        /\ last' = StepOf("overflow", element)
        /\ IF flush /\ r.err # "ok"
           THEN /\ Raise(r.err)
                /\ UNCHANGED <<chunks, position, structure_locals>>
           ELSE /\ chunks' = IF flush THEN Append(chunks, r.chunk)
                             ELSE chunks
                /\ chunk_elements' =
                     IF flush THEN Append(chunk_elements, buffer_elements)
                     ELSE chunk_elements
                /\ position' = position1
                /\ current_chunk_content' = Append(overlap_content, text)
                /\ buffer_elements' =
                     Append(SubSeq(buffer_elements,
                                   Len(buffer_elements) - kept + 1,
                                   Len(buffer_elements)), next_element)
                /\ current_tokens' = SumTokens(overlap_content)
                                     + element_tokens
                /\ current_metadata' =
                     Some(create_chunk_metadata(element.chapter,
                                                element.section,
                                                element_level(element),
                                                position1, "content"))
                /\ next_element' = next_element + 1
                /\ UNCHANGED <<pc, err, structure>>
  /\ UNCHANGED <<api_vars, retriever_vars, service_vars>>
  /\ UNCHANGED <<config, call, token_locals, run, first_ids>>

\* one iteration on a paragraph or section element that fits the buffer
structure_append ==
  /\ pc = "structure"
  /\ next_element <= Len(structure)
  /\ structure[next_element].type # "heading"
  /\ LET element == structure[next_element]
         text == element_content(element)
         element_tokens == count_tokens(text)
     IN /\ ~(current_tokens + element_tokens > max_tokens)
        /\ last' = StepOf("append", element)
        /\ current_chunk_content' = Append(current_chunk_content, text)
        /\ buffer_elements' = Append(buffer_elements, next_element)
        /\ current_tokens' = current_tokens + element_tokens
        /\ next_element' = next_element + 1
  /\ UNCHANGED <<api_vars, retriever_vars, service_vars>>
  /\ UNCHANGED <<config, call, pc, err, chunks, position, structure,
                 current_metadata, chunk_elements, token_locals, run,
                 first_ids>>

\* after the loop: yield the final chunk
structure_final ==
  /\ pc = "structure"
  /\ next_element > Len(structure)
  /\ LET flush == Len(current_chunk_content) > 0
         r == create_chunk_from_buffer(current_chunk_content,
                                       current_metadata, current_tokens,
                                       position)
     IN /\ last' = [op |-> "final", buffer |-> current_chunk_content,
                    element |-> <<>>]
        /\ IF flush /\ r.err # "ok"
           THEN /\ Raise(r.err)
                /\ UNCHANGED <<chunks, chunk_elements>>
           ELSE /\ pc' = "done"
                /\ chunks' = IF flush THEN Append(chunks, r.chunk)
                             ELSE chunks
                /\ chunk_elements' =
                     IF flush THEN Append(chunk_elements, buffer_elements)
                     ELSE chunk_elements
                /\ UNCHANGED err
  /\ UNCHANGED <<api_vars, retriever_vars, service_vars>>
  /\ UNCHANGED <<config, call, position, structure, next_element,
                 current_chunk_content, current_metadata, current_tokens,
                 buffer_elements, token_locals, run, first_ids>>

\* ------------------------------------------------------ _chunk_by_tokens
Min(a, b) == IF a < b THEN a ELSE b
Max(a, b) == IF a > b THEN a ELSE b

end_idx == Min(i + max_tokens, Len(tokens))
chunk_tokens == SubSeq(tokens, i + 1, end_idx)

\* the step of the window start without the forward step of one
next_window_start_stalled == Max(i, end_idx - overlap_tokens)

\* the step of the window start after a chunk was yielded
next_window_start == Max(i + 1, end_idx - overlap_tokens)

\* a window below min_tokens that does not reach the end is skipped
tokens_skip ==
  /\ pc = "tokens"
  /\ i < Len(tokens)
  /\ Len(chunk_tokens) < min_tokens /\ end_idx < Len(tokens)
  /\ i' = i + 1
  /\ last' = [op |-> "skip", buffer |-> <<>>, element |-> chunk_tokens]
  /\ UNCHANGED <<api_vars, retriever_vars, service_vars>>
  /\ UNCHANGED <<config, call, pc, err, chunks, position, structure_locals,
                 tokens, windows, run, first_ids>>

\* a window is yielded as a chunk
tokens_emit ==
  /\ pc = "tokens"
  /\ i < Len(tokens)
  /\ ~(Len(chunk_tokens) < min_tokens /\ end_idx < Len(tokens))
  /\ LET text == decode(chunk_tokens)
         token_count == Len(chunk_tokens)
         metadata == create_chunk_metadata(None, None, 0, position,
                                           "content")
         id == generate_chunk_id(text, position, None)
         e == Chunk_post_init(id, text, token_count)
     IN /\ last' = [op |-> "emit", buffer |-> <<>>, element |-> chunk_tokens]
        /\ IF e # "ok"
           THEN /\ Raise(e)
                /\ UNCHANGED <<chunks, position, i, windows>>
           ELSE /\ chunks' = Append(chunks,
                                    Chunk(id, text, metadata, token_count))
                /\ windows' = Append(windows, <<i, end_idx>>)
                /\ position' = position + 1
                /\ i' = next_window_start
                /\ UNCHANGED <<pc, err>>
  /\ UNCHANGED <<api_vars, retriever_vars, service_vars>>
  /\ UNCHANGED <<config, call, structure_locals, tokens, run, first_ids>>

\* the while condition fails: the generator is exhausted
tokens_end ==
  /\ pc = "tokens"
  /\ ~(i < Len(tokens))
  /\ pc' = "done"
  /\ last' = [op |-> "end", buffer |-> <<>>, element |-> <<>>]
  /\ UNCHANGED <<api_vars, retriever_vars, service_vars>>
  /\ UNCHANGED <<config, call, err, chunks, position, structure_locals,
                 token_locals, run, first_ids>>

\* --------------------------------------------------------------- re-chunk
ChunkIds(cs) == [k \in 1..Len(cs) |-> cs[k].id]

\* the same chunker is handed the same content again: a new generator,
\* whose locals are set by the entry of _chunk_by_structure/_chunk_by_tokens
chunk_content_again ==
  /\ pc \in {"done", "raised"}
  /\ run = 1
  /\ run' = 2
  /\ first_ids' = ChunkIds(chunks)
  /\ pc' = "start"
  /\ err' = "none"
  /\ chunks' = <<>>
  /\ chunk_elements' = <<>>
  /\ windows' = <<>>
  /\ last' = NoStep
  /\ UNCHANGED <<api_vars, retriever_vars, service_vars>>
  /\ UNCHANGED <<config, call, position, structure, next_element,
                 current_chunk_content, current_metadata, current_tokens,
                 buffer_elements, tokens, i>>

Next ==
  \/ chunk_content_empty
  \/ chunk_by_structure_begin
  \/ chunk_by_tokens_begin
  \/ structure_heading
  \/ structure_overflow
  \/ structure_append
  \/ structure_final
  \/ tokens_skip
  \/ tokens_emit
  \/ tokens_end
  \/ chunk_content_again

Spec == Init /\ [][Next]_vars

\* token-only runs alone; the caller keeps drawing from the generator
InitTokens == Init /\ ~respect_structure

NextTokens ==
  \/ chunk_content_empty
  \/ chunk_by_tokens_begin
  \/ tokens_skip
  \/ tokens_emit
  \/ tokens_end
  \/ chunk_content_again

SpecTokens == InitTokens /\ [][NextTokens]_vars
SpecTokensFair == SpecTokens /\ WF_vars(NextTokens)

\* ----------------------------------------------- direct calls of the API
\* generate_chunk_id and Chunk(...) called by a client with its own
\* arguments, outside any chunking run
IdContents == {<<"x">>, <<"x", "_", "1">>}
IdChapters == {None, Some(<<>>), Some(<<"A">>), Some(<<"1">>)}

CtorIds == {<<>>, <<"c">>}
CtorContents == {<<>>, <<LF>>, <<"x">>, <<"x", LF>>}

ChunkerIdle ==
  /\ max_tokens = 1
  /\ min_tokens = 0
  /\ overlap_tokens = 0
  /\ respect_structure = TRUE
  /\ content = <<>>
  /\ run = 1
  /\ first_ids = <<>>
  /\ Fresh

chunker_vars == <<config, call, pc, err, chunks, position, structure_locals,
                  token_locals, run, first_ids, last>>

InitApi ==
  /\ ChunkerIdle
  /\ ApiIdle
  /\ RetrieverIdle
  /\ ServiceIdle

call_generate_chunk_id ==
  /\ \E c \in IdContents, p \in 0..MaxPosition, ch \in IdChapters :
       id_calls' =
         (IF Len(id_calls) = 2 THEN Tail(id_calls) ELSE id_calls)
         \o <<[content |-> c, position |-> p, chapter |-> ch,
               id |-> generate_chunk_id(c, p, ch)]>>
  /\ UNCHANGED <<objects, ctor_last, chunker_vars, retriever_vars,
               service_vars>>

construct_Chunk ==
  /\ \E id \in CtorIds, c \in CtorContents, n \in (-1)..MaxTokenCount :
       LET e == Chunk_post_init(id, c, n)
       IN /\ ctor_last' = [id |-> id, content |-> c, token_count |-> n,
                           err |-> e]
          /\ objects' = IF e = "ok"
                        THEN objects \cup {Chunk(id, c, <<>>, n)}
                        ELSE objects
  /\ UNCHANGED <<id_calls, chunker_vars, retriever_vars, service_vars>>

\* a client that only generates ids
SpecIds == InitApi /\ [][call_generate_chunk_id]_vars

\* a client that only constructs Chunk objects
SpecChunk == InitApi /\ [][construct_Chunk]_vars

\* ------------------------------------------------------- retriever values
\* (linguistics/rag/retriever.py, linguistics/database/chroma_client.py)
\* A score or a distance is a float; the model keeps it as a fraction in
\* lowest terms, so that float equality is equality of the records.
RECURSIVE GCD(_, _)
GCD(a, b) == IF b = 0 THEN a ELSE GCD(b, a % b)

Abs(x) == IF x < 0 THEN 0 - x ELSE x

\* the float n/d, d > 0
Rat(n, d) ==
  LET g == GCD(Abs(n), d)
  IN [num |-> (IF n < 0 THEN 0 - (Abs(n) \div g) ELSE n \div g),
      den |-> d \div g]

One == Rat(1, 1)
Zero == Rat(0, 1)

\* a - b
RatSub(a, b) == Rat(a.num * b.den - b.num * a.den, a.den * b.den)

\* a / b, b > 0
RatDiv(a, b) == Rat(a.num * b.den, a.den * b.num)

\* a < b
RatLess(a, b) == a.num * b.den < b.num * a.den

\* Python truthiness of an Optional[float]: None and 0.0 are falsy
TruthyFloat(opt) == opt # None /\ opt[1].num # 0

\* Python truthiness of an Optional[int]: None and 0 are falsy
TruthyInt(opt) == opt # None /\ opt[1] # 0

\* a dict is a function from its keys; {} is the empty function
EmptyDict == <<>>

DictSet(d, key, value) ==
  [k \in DOMAIN d \cup {key} |-> IF k = key THEN value ELSE d[k]]

\* `x or {}` and `x or ""` for a value the store may return as None
OrEmpty(opt) == IF opt = None THEN <<>> ELSE opt[1]

\* str.strip(): leading and trailing whitespace removed
RECURSIVE lstrip(_)
lstrip(s) ==
  IF s # <<>> /\ Head(s) = " " THEN lstrip(Tail(s)) ELSE s

RECURSIVE rstrip(_)
rstrip(s) ==
  IF s # <<>> /\ s[Len(s)] = " " THEN rstrip(SubSeq(s, 1, Len(s) - 1))
  ELSE s

\* the query taken as it is, whitespace kept
strip_nothing(s) == s

strip(s) == rstrip(lstrip(s))

\* ------------------------------------------------------- RetrievalResult
RetrievalResult(id, text, metadata, similarity_score, normalized_score) ==
  [id |-> id, content |-> text, metadata |-> metadata,
   similarity_score |-> similarity_score,
   normalized_score |-> IF TruthyFloat(normalized_score)
                        THEN normalized_score[1]
                        ELSE similarity_score]

\* ---------------------------------------------------- _build_where_clause
\* a filter value is a string or a list of strings
Str(s) == [list |-> FALSE, v |-> <<s>>]
List(xs) == [list |-> TRUE, v |-> xs]

EqualityKeys ==
  {"content_type", "difficulty_level", "language", "topic", "subtopic"}

\* one turn of the loop in which level never replaces a difficulty_level
\* that is already set
where_clause_item_first_wins(where_clause, key, value) ==
  IF key \in EqualityKeys THEN DictSet(where_clause, key, value)
  ELSE IF key = "tags"
       THEN IF value.list THEN DictSet(where_clause, "$contains", value)
            ELSE DictSet(where_clause, "$contains", List(value.v))
  ELSE IF key = "chapter" THEN DictSet(where_clause, "chapter", value)
  ELSE IF key = "level" /\ "difficulty_level" \notin DOMAIN where_clause
       THEN DictSet(where_clause, "difficulty_level", value)
  ELSE where_clause

\* one turn of the loop over filters.items()
where_clause_item(where_clause, key, value) ==
  IF key \in EqualityKeys THEN DictSet(where_clause, key, value)
  ELSE IF key = "tags"
       THEN IF value.list THEN DictSet(where_clause, "$contains", value)
            ELSE DictSet(where_clause, "$contains", List(value.v))
  ELSE IF key = "chapter" THEN DictSet(where_clause, "chapter", value)
  ELSE IF key = "level" THEN DictSet(where_clause, "difficulty_level", value)
  ELSE where_clause

RECURSIVE where_clause_loop(_, _)
where_clause_loop(items, where_clause) ==
  IF items = <<>> THEN where_clause
  ELSE where_clause_loop(Tail(items),
         where_clause_item(where_clause, Head(items)[1], Head(items)[2]))

\* filters: None, or the items of the dict in insertion order
build_where_clause(filters) ==
  IF filters = None \/ filters[1] = <<>> THEN None
  ELSE LET where_clause == where_clause_loop(filters[1], EmptyDict)
       IN IF DOMAIN where_clause # {} THEN Some(where_clause) ELSE None

\* ------------------------------------------------------ _normalize_scores
\* _normalize_scores without the branch for equal scores
normalize_scores_unguarded(results) ==
  IF results = <<>> THEN results
  ELSE LET scores == {results[k].similarity_score : k \in 1..Len(results)}
           min_score ==
             CHOOSE s \in scores : \A t \in scores : ~RatLess(t, s)
           max_score ==
             CHOOSE s \in scores : \A t \in scores : ~RatLess(s, t)
       IN IF max_score = min_score
          THEN results
          ELSE [k \in 1..Len(results) |->
                  [results[k] EXCEPT !.normalized_score =
                     RatDiv(RatSub(results[k].similarity_score, min_score),
                            RatSub(max_score, min_score))]]

\* the list after the in-place update
normalize_scores(results) ==
  IF results = <<>> THEN results
  ELSE LET scores == {results[k].similarity_score : k \in 1..Len(results)}
           min_score ==
             CHOOSE s \in scores : \A t \in scores : ~RatLess(t, s)
           max_score ==
             CHOOSE s \in scores : \A t \in scores : ~RatLess(s, t)
       IN IF max_score = min_score
          THEN [k \in 1..Len(results) |->
                  [results[k] EXCEPT !.normalized_score = One]]
          ELSE [k \in 1..Len(results) |->
                  [results[k] EXCEPT !.normalized_score =
                     RatDiv(RatSub(results[k].similarity_score, min_score),
                            RatSub(max_score, min_score))]]

\* ---------------------------------------------------------- LinguisticsDB
\* The vector store during one retriever call: whether the embedding
\* service is available, and per query text either a failure of the
\* collection or the ranked rows the collection holds for it.
StoreFailure == [ok |-> FALSE, rows |-> <<>>]
StoreRows(rows) == [ok |-> TRUE, rows |-> rows]

\* LinguisticsDB.query going to the collection without asking whether the
\* embedding service is available
LinguisticsDB_query_unchecked(env, query_texts, n_results, where) ==
  IF query_texts = <<>>
  THEN [err |-> "ValueError", results |-> <<>>]
  ELSE LET answer == env.nn[query_texts[1]]
           rows == SubSeq(answer.rows, 1, Min(n_results, Len(answer.rows)))
       IN IF ~answer.ok
          THEN [err |-> "LinguisticsDBError", results |-> <<>>]
          ELSE [err |-> "none",
                results |->
                  [ids |-> <<[k \in 1..Len(rows) |-> rows[k].id]>>,
                   distances |->
                     <<[k \in 1..Len(rows) |-> rows[k].distance]>>,
                   metadatas |->
                     <<[k \in 1..Len(rows) |-> rows[k].metadata]>>,
                   documents |->
                     <<[k \in 1..Len(rows) |-> rows[k].document]>>]]

\* LinguisticsDB.query called with query_texts and no query_embeddings
LinguisticsDB_query(env, query_texts, n_results, where) ==
  IF query_texts = <<>>
  THEN [err |-> "ValueError", results |-> <<>>]
  ELSE IF ~env.available
  THEN [err |-> "EmbeddingUnavailableError", results |-> <<>>]
  ELSE LET answer == env.nn[query_texts[1]]
           rows == SubSeq(answer.rows, 1, Min(n_results, Len(answer.rows)))
       IN IF ~answer.ok
          THEN [err |-> "LinguisticsDBError", results |-> <<>>]
          ELSE [err |-> "none",
                results |->
                  [ids |-> <<[k \in 1..Len(rows) |-> rows[k].id]>>,
                   distances |->
                     <<[k \in 1..Len(rows) |-> rows[k].distance]>>,
                   metadatas |->
                     <<[k \in 1..Len(rows) |-> rows[k].metadata]>>,
                   documents |->
                     <<[k \in 1..Len(rows) |-> rows[k].document]>>]]

\* LinguisticsDB.get: by ids, or the documents the store selects for
\* `where`, at most `limit` of them
LinguisticsDB_get(env, ids, where, limit) ==
  IF ~env.ok THEN [err |-> "LinguisticsDBError", results |-> <<>>]
  ELSE LET selected ==
             IF ids # None
             THEN SelectSeq(env.rows,
                            LAMBDA row : \E k \in 1..Len(ids[1]) :
                                           ids[1][k] = row.id)
             ELSE env.rows
           rows == IF limit # None
                   THEN SubSeq(selected, 1, Min(limit[1], Len(selected)))
                   ELSE selected
       IN [err |-> "none",
           results |-> [ids |-> [k \in 1..Len(rows) |-> rows[k].id],
                        metadatas |->
                          [k \in 1..Len(rows) |-> rows[k].metadata],
                        documents |->
                          [k \in 1..Len(rows) |-> rows[k].document]]]

\* ---------------------------------------------------------- BookRetriever
\* the metadata kept for one result (search, "Filter metadata if requested")
filter_metadata(metadata, include_metadata) ==
  IF include_metadata # None /\ include_metadata[1] # <<>>
  THEN [k \in {key \in DOMAIN metadata :
                 \E j \in 1..Len(include_metadata[1]) :
                   include_metadata[1][j] = key} |-> metadata[k]]
  ELSE metadata

\* the conversion loop keeping only results strictly above the threshold
retrieval_results_strict(results, threshold, include_metadata) ==
  IF results.ids # <<>> /\ results.ids[1] # <<>>
  THEN LET n == Len(results.ids[1])
           similarity(k) == RatSub(One, results.distances[1][k])
           kept == SelectSeq([k \in 1..n |-> k],
                     LAMBDA k : RatLess(threshold, similarity(k)))
       IN [j \in 1..Len(kept) |->
             RetrievalResult(
               results.ids[1][kept[j]],
               OrEmpty(results.documents[1][kept[j]]),
               filter_metadata(OrEmpty(results.metadatas[1][kept[j]]),
                               include_metadata),
               similarity(kept[j]),
               None)]
  ELSE <<>>

\* "Convert to RetrievalResult objects": the loop over results["ids"][0]
retrieval_results(results, threshold, include_metadata) ==
  IF results.ids # <<>> /\ results.ids[1] # <<>>
  THEN LET n == Len(results.ids[1])
           similarity(k) == RatSub(One, results.distances[1][k])
           kept == SelectSeq([k \in 1..n |-> k],
                     LAMBDA k : ~RatLess(similarity(k), threshold))
       IN [j \in 1..Len(kept) |->
             RetrievalResult(
               results.ids[1][kept[j]],
               OrEmpty(results.documents[1][kept[j]]),
               filter_metadata(OrEmpty(results.metadatas[1][kept[j]]),
                               include_metadata),
               similarity(kept[j]),
               None)]
  ELSE <<>>

\* search: the exception raised or the list returned, and the store calls
\* issued on the way
search(threshold, max, query, top_k, filters, include_metadata, env) ==
  IF strip(query) = <<>>
  THEN [err |-> "ValueError", value |-> <<>>, db |-> <<>>]
  ELSE LET n_results == IF TruthyInt(top_k) THEN top_k[1] ELSE max
           where_clause == build_where_clause(filters)
           issued == <<[op |-> "query", query_texts |-> <<query>>,
                        n_results |-> n_results, where |-> where_clause]>>
           answer == LinguisticsDB_query(env, <<query>>, n_results,
                                         where_clause)
       IN IF answer.err # "none"
          THEN [err |-> answer.err, value |-> <<>>, db |-> issued]
          ELSE [err |-> "none",
                value |-> normalize_scores(
                            retrieval_results(answer.results, threshold,
                                              include_metadata)),
                db |-> issued]

\* the loop over queries giving up at the first failing query
RECURSIVE bulk_search_loop_abort(_, _, _, _, _, _, _, _)
bulk_search_loop_abort(threshold, max, queries, k, top_k, filters, env, acc) ==
  IF k > Len(queries) THEN acc
  ELSE LET found == search(threshold, max, queries[k], top_k, filters,
                           None, env)
       IN IF found.err # "none"
          THEN [value |-> DictSet(acc.value, queries[k], <<>>),
                db |-> acc.db \o found.db]
          ELSE bulk_search_loop_abort(threshold, max, queries, k + 1, top_k,
                 filters, env,
                 [value |-> DictSet(acc.value, queries[k], found.value),
                  db |-> acc.db \o found.db])

\* bulk_search: the loop over queries from index k on
RECURSIVE bulk_search_loop(_, _, _, _, _, _, _, _)
bulk_search_loop(threshold, max, queries, k, top_k, filters, env, acc) ==
  IF k > Len(queries) THEN acc
  ELSE LET found == search(threshold, max, queries[k], top_k, filters,
                           None, env)
       IN bulk_search_loop(threshold, max, queries, k + 1, top_k, filters,
            env,
            [value |-> DictSet(acc.value, queries[k],
                               IF found.err = "none" THEN found.value
                               ELSE <<>>),
             db |-> acc.db \o found.db])

bulk_search(threshold, max, queries, top_k, filters, env) ==
  IF queries = <<>> THEN [err |-> "none", value |-> EmptyDict, db |-> <<>>]
  ELSE LET done == bulk_search_loop(threshold, max, queries, 1, top_k,
                                    filters, env,
                                    [value |-> EmptyDict, db |-> <<>>])
       IN [err |-> "none", value |-> done.value, db |-> done.db]

\* get_by_id raising for an id the store does not hold
get_by_id_raising(doc_id, env) ==
  LET issued == <<[op |-> "get", ids |-> Some(<<doc_id>>), where |-> None,
                   limit |-> None]>>
      answer == LinguisticsDB_get(env, Some(<<doc_id>>), None, None)
  IN IF answer.err # "none"
     THEN [err |-> "none", value |-> None, db |-> issued]
     ELSE IF answer.results.ids # <<>> /\ answer.results.ids[1] # ""
     THEN [err |-> "none",
           value |-> Some(RetrievalResult(
                            doc_id,
                            OrEmpty(answer.results.documents[1]),
                            OrEmpty(answer.results.metadatas[1]),
                            One, Some(One))),
           db |-> issued]
     ELSE [err |-> "KeyError", value |-> None, db |-> issued]

get_by_id(doc_id, env) ==
  LET issued == <<[op |-> "get", ids |-> Some(<<doc_id>>), where |-> None,
                   limit |-> None]>>
      answer == LinguisticsDB_get(env, Some(<<doc_id>>), None, None)
  IN IF answer.err # "none"
     THEN [err |-> "none", value |-> None, db |-> issued]
     ELSE IF answer.results.ids # <<>> /\ answer.results.ids[1] # ""
     THEN [err |-> "none",
           value |-> Some(RetrievalResult(
                            doc_id,
                            OrEmpty(answer.results.documents[1]),
                            OrEmpty(answer.results.metadatas[1]),
                            One, Some(One))),
           db |-> issued]
     ELSE [err |-> "none", value |-> None, db |-> issued]

get_by_filters(max, filters, limit, env) ==
  LET where_clause == build_where_clause(filters)
      lim == IF TruthyInt(limit) THEN limit[1] ELSE max
      issued == <<[op |-> "get", ids |-> None, where |-> where_clause,
                   limit |-> Some(lim)]>>
      answer == LinguisticsDB_get(env, None, where_clause, Some(lim))
  IN IF answer.err # "none"
     THEN [err |-> "none", value |-> <<>>, db |-> issued]
     ELSE [err |-> "none",
           value |-> [k \in 1..Len(answer.results.ids) |->
                        RetrievalResult(
                          answer.results.ids[k],
                          OrEmpty(answer.results.documents[k]),
                          OrEmpty(answer.results.metadatas[k]),
                          One, Some(One))],
           db |-> issued]

\* ------------------------------------------------------ retriever inputs
Scores == {Rat(d, ScoreScale) : d \in 0..ScoreScale}

TopicOnly == [k \in {"topic"} |-> "t"]
TopicChapter == [k \in {"topic", "chapter"} |->
                   IF k = "topic" THEN "t" ELSE "c"]

\* rows a collection may hold: id, distance to the query, metadata, text
RowAlphabet ==
  {[id |-> "a", distance |-> d, metadata |-> Some(TopicChapter),
    document |-> Some(<<"x">>)] : d \in Scores}
  \cup {[id |-> "b", distance |-> d, metadata |-> Some(TopicOnly),
         document |-> Some(<<"y">>)] : d \in Scores}
  \cup {[id |-> "c", distance |-> Zero, metadata |-> None,
         document |-> None]}

DistinctIds(rows) ==
  \A j, k \in 1..Len(rows) : j # k => rows[j].id # rows[k].id

\* what a collection returns, best first by its own ranking
Rankings ==
  {<<>>} \cup {rows \in SeqsUpTo(RowAlphabet, MaxRows) : DistinctIds(rows)}

Answers == {StoreFailure} \cup {StoreRows(rows) : rows \in Rankings}

BulkAnswers ==
  {StoreFailure, StoreRows(<<>>)}
  \cup {StoreRows(<<row>>) : row \in {r \in RowAlphabet : r.id = "a"}}

\* the store as seen by the query texts of one call
QueryEnvs(texts, answers) ==
  {[available |-> FALSE, nn |-> [q \in texts |-> StoreRows(<<>>)]]}
  \cup {[available |-> TRUE, nn |-> f] : f \in [texts -> answers]}

GetEnvs ==
  {StoreFailure}
  \cup {StoreRows(rows) :
          rows \in {r \in Rankings :
                      \A k \in 1..Len(r) : r[k].distance = Zero}}

NonBlank(queries) ==
  {queries[k] : k \in {j \in 1..Len(queries) : strip(queries[j]) # <<>>}}

SearchQueries == {<<>>, <<" ">>, <<"q">>, <<" ", "q">>}
BulkQueries == {<<" ">>, <<"p">>, <<"q">>}
TopKs == {None, Some(0), Some(1)}
SearchFilters == {None, Some(<<<<"level", Str("b")>>>>)}
IncludeLists == {None, Some(<<>>), Some(<<"topic">>)}
DocIds == {"a", "b", "z"}

FilterItems ==
  {<<key, Str("v")>> :
     key \in EqualityKeys \cup {"chapter", "author"}}
  \cup {<<"level", Str("b")>>, <<"tags", Str("g")>>,
        <<"tags", List(<<"g", "h">>)>>}

DistinctKeys(items) ==
  \A j, k \in 1..Len(items) : j # k => items[j][1] # items[k][1]

FilterMaps ==
  {None, Some(<<>>)}
  \cup {Some(items) :
          items \in {s \in SeqsUpTo(FilterItems, MaxFilterItems) :
                       DistinctKeys(s)}}

\* --------------------------------------------------- calls on a retriever
InitRetriever ==
  /\ ChunkerIdle
  /\ ApiIdle
  /\ similarity_threshold \in Scores
  /\ max_results \in 1..MaxRows
  /\ NoRetrieverCall
  /\ ServiceIdle

\* the outcome of a call, recorded for the caller
Returned(op, args, env, outcome) ==
  /\ r_op' = op
  /\ r_args' = args
  /\ db_env' = env
  /\ db_calls' = outcome.db
  /\ r_err' = outcome.err
  /\ r_value' = outcome.value
  /\ UNCHANGED <<retriever_config, chunker_vars, api_vars, service_vars>>

call_search ==
  /\ r_op = "none"
  /\ \E query \in SearchQueries, top_k \in TopKs, filters \in SearchFilters,
        include_metadata \in IncludeLists :
       \E env \in QueryEnvs(NonBlank(<<query>>), Answers) :
         Returned("search",
                  [query |-> query, top_k |-> top_k, filters |-> filters,
                   include_metadata |-> include_metadata],
                  env,
                  search(similarity_threshold, max_results, query, top_k,
                         filters, include_metadata, env))

call_bulk_search ==
  /\ r_op = "none"
  /\ \E queries \in {<<>>} \cup SeqsUpTo(BulkQueries, MaxQueries),
        top_k \in {None, Some(1)} :
       \E env \in QueryEnvs(NonBlank(queries), BulkAnswers) :
         Returned("bulk_search",
                  [queries |-> queries, top_k |-> top_k, filters |-> None],
                  env,
                  bulk_search(similarity_threshold, max_results, queries,
                              top_k, None, env))

call_get_by_id ==
  /\ r_op = "none"
  /\ \E doc_id \in DocIds, env \in GetEnvs :
       Returned("get_by_id", [doc_id |-> doc_id], env,
                get_by_id(doc_id, env))

call_get_by_filters ==
  /\ r_op = "none"
  /\ \E filters \in SearchFilters, limit \in TopKs, env \in GetEnvs :
       Returned("get_by_filters", [filters |-> filters, limit |-> limit],
                env, get_by_filters(max_results, filters, limit, env))

call_build_where_clause ==
  /\ r_op = "none"
  /\ \E filters \in FilterMaps :
       Returned("_build_where_clause", [filters |-> filters], <<>>,
                [err |-> "none", value |-> build_where_clause(filters),
                 db |-> <<>>])

call_normalize_scores ==
  /\ r_op = "none"
  /\ \E scores \in {<<>>} \cup SeqsUpTo(Scores, MaxRows) :
       LET results == [k \in 1..Len(scores) |->
                         RetrievalResult("a", <<"x">>, EmptyDict,
                                         scores[k], None)]
       IN Returned("_normalize_scores", [results |-> results], <<>>,
                   [err |-> "none", value |-> normalize_scores(results),
                    db |-> <<>>])

construct_RetrievalResult ==
  /\ r_op = "none"
  /\ \E similarity_score \in Scores,
        normalized_score \in {None} \cup {Some(s) : s \in Scores} :
       Returned("RetrievalResult",
                [similarity_score |-> similarity_score,
                 normalized_score |-> normalized_score],
                <<>>,
                [err |-> "none",
                 value |-> RetrievalResult("a", <<"x">>, EmptyDict,
                                           similarity_score,
                                           normalized_score),
                 db |-> <<>>])

NextRetriever ==
  \/ call_search
  \/ call_bulk_search
  \/ call_get_by_id
  \/ call_get_by_filters
  \/ call_build_where_clause
  \/ call_normalize_scores
  \/ construct_RetrievalResult

SpecRetriever == InitRetriever /\ [][NextRetriever]_vars

\* ------------------------------------------------- the other components
\* what the components modelled below leave alone
except_search_calls == <<retriever_call, chunker_vars, api_vars, seed_vars,
                         u_call, e_call, memory_vars, conv_vars>>
except_seed == <<chunker_vars, api_vars, retriever_vars, search_calls,
                 u_call, e_call, memory_vars, conv_vars>>
except_u_call == <<chunker_vars, api_vars, retriever_vars, search_calls,
                   seed_vars, e_call, memory_vars, conv_vars>>
except_e_call == <<chunker_vars, api_vars, retriever_vars, search_calls,
                   seed_vars, u_call, memory_vars, conv_vars>>
except_memory == <<chunker_vars, api_vars, retriever_vars, search_calls,
                   seed_vars, u_call, e_call, conv_vars>>
except_conv == <<chunker_vars, api_vars, retriever_vars, search_calls,
                 seed_vars, u_call, e_call, memory_vars>>

\* ---------------------------------------------------- concurrent searches
\* Two callers run search on one BookRetriever.  A search is two steps:
\* up to the blocking self.db.query(...) call, and from its answer to the
\* return.  The store is shared and does not change meanwhile.
ConcQueries == {<<" ">>, <<"p">>, <<"q">>}

ConcAnswers ==
  {StoreFailure}
  \cup {StoreRows(<<[id |-> "a", distance |-> Zero,
                     metadata |-> Some(TopicChapter),
                     document |-> Some(<<"x">>)],
                    [id |-> "b", distance |-> d,
                     metadata |-> Some(TopicOnly),
                     document |-> Some(<<"y">>)]>>) : d \in Scores}

InitSearchCalls ==
  /\ ChunkerIdle
  /\ ApiIdle
  /\ similarity_threshold \in Scores
  /\ max_results \in 1..MaxRows
  /\ NoRetrieverCall
  /\ s_env \in QueryEnvs(NonBlank(<<<<"p">>, <<"q">>>>), ConcAnswers)
  /\ s_pc = [p \in Callers |-> "idle"]
  /\ s_args = [p \in Callers |-> <<>>]
  /\ s_request = [p \in Callers |-> <<>>]
  /\ s_out = [p \in Callers |-> <<>>]
  /\ s_trace = <<>>
  /\ SeedIdle
  /\ DirectCallsIdle

\* search entered by caller p that also keeps its n_results as the
\* retriever's new max_results
search_begin_storing_top_k(p) ==
  /\ s_pc[p] = "idle"
  /\ \E query \in ConcQueries, top_k \in {None, Some(1)},
        include_metadata \in {Some(<<"topic">>)} :
       LET n_results == IF TruthyInt(top_k) THEN top_k[1] ELSE max_results
       IN /\ s_args' = [s_args EXCEPT ![p] =
                          [query |-> query, top_k |-> top_k,
                           filters |-> None,
                           include_metadata |-> include_metadata]]
          /\ IF strip(query) = <<>>
             THEN /\ s_pc' = [s_pc EXCEPT ![p] = "done"]
                  /\ s_out' = [s_out EXCEPT ![p] =
                                 [err |-> "ValueError", value |-> <<>>]]
                  /\ UNCHANGED <<s_request, retriever_config>>
             ELSE /\ s_pc' = [s_pc EXCEPT ![p] = "waiting"]
                  /\ s_request' = [s_request EXCEPT ![p] =
                       [op |-> "query", query_texts |-> <<query>>,
                        n_results |-> n_results,
                        where |-> build_where_clause(None)]]
                  /\ max_results' = n_results
                  /\ UNCHANGED <<s_out, similarity_threshold>>
  /\ s_trace' = Append(s_trace, p)
  /\ UNCHANGED <<s_env, except_search_calls>>

\* search entered by caller p: validation, top_k default, where clause,
\* and the query sent to the store
search_begin(p) ==
  /\ s_pc[p] = "idle"
  /\ \E query \in ConcQueries, top_k \in {None, Some(1)},
        include_metadata \in {Some(<<"topic">>)} :
       LET n_results == IF TruthyInt(top_k) THEN top_k[1] ELSE max_results
       IN /\ s_args' = [s_args EXCEPT ![p] =
                          [query |-> query, top_k |-> top_k,
                           filters |-> None,
                           include_metadata |-> include_metadata]]
          /\ IF strip(query) = <<>>
             THEN /\ s_pc' = [s_pc EXCEPT ![p] = "done"]
                  /\ s_out' = [s_out EXCEPT ![p] =
                                 [err |-> "ValueError", value |-> <<>>]]
                  /\ UNCHANGED s_request
             ELSE /\ s_pc' = [s_pc EXCEPT ![p] = "waiting"]
                  /\ s_request' = [s_request EXCEPT ![p] =
                       [op |-> "query", query_texts |-> <<query>>,
                        n_results |-> n_results,
                        where |-> build_where_clause(None)]]
                  /\ UNCHANGED s_out
  /\ s_trace' = Append(s_trace, p)
  /\ UNCHANGED <<s_env, retriever_config, except_search_calls>>

\* the store answers caller p, who converts, filters by the threshold,
\* normalizes and returns (or re-raises)
search_end(p) ==
  /\ s_pc[p] = "waiting"
  /\ LET request == s_request[p]
         answer == LinguisticsDB_query(s_env, request.query_texts,
                                       request.n_results, request.where)
     IN s_out' = [s_out EXCEPT ![p] =
          IF answer.err # "none"
          THEN [err |-> answer.err, value |-> <<>>]
          ELSE [err |-> "none",
                value |-> normalize_scores(
                            retrieval_results(answer.results,
                                              similarity_threshold,
                                              s_args[p].include_metadata))]]
  /\ s_pc' = [s_pc EXCEPT ![p] = "done"]
  /\ s_trace' = Append(s_trace, p)
  /\ UNCHANGED <<s_env, s_args, s_request, retriever_config,
                 except_search_calls>>

NextSearchCalls ==
  \/ \E p \in Callers : search_begin(p)
  \/ \E p \in Callers : search_end(p)

SpecSearchCalls == InitSearchCalls /\ [][NextSearchCalls]_vars

\* ------------------------------------------------------ CollectionSeeder
\* (linguistics/database/seed.py)  Lists are the documents 1..n; the
\* collection either takes a write or raises, attempt by attempt.
ListOf(n) == [k \in 1..n |-> k]

InitSeed ==
  /\ ChunkerIdle
  /\ ApiIdle
  /\ RetrieverIdle
  /\ SearchCallsIdle
  /\ DirectCallsIdle
  /\ batch_size \in 1..MaxBatchSize
  /\ max_retries \in 0..MaxRetries
  /\ \E n \in 0..MaxDocs, m \in 0..MaxDocs, k \in 0..MaxDocs,
        upsert \in BOOLEAN, valid \in BOOLEAN, has_collection \in BOOLEAN :
       \* a failing validator or get_collection is looked at once, on
       \* lists of equal length
       /\ (n # m \/ m # k) => (valid /\ has_collection)
       /\ ~valid => has_collection
       /\ seed_args = [documents |-> ListOf(n), metadatas |-> ListOf(m),
                       ids |-> ListOf(k), upsert |-> upsert,
                       valid |-> valid, has_collection |-> has_collection]
  /\ seed_pc = "start"
  /\ batch_start = 0
  /\ attempt = 0
  /\ successful = 0
  /\ failed = 0
  /\ attempts = <<>>
  /\ seed_result = <<>>

\* seed_collection up to the batch loop: validation and get_collection
seed_collection_begin ==
  /\ seed_pc = "start"
  /\ IF ~(Len(seed_args.documents) = Len(seed_args.metadatas)
           /\ Len(seed_args.metadatas) = Len(seed_args.ids))
        \/ ~seed_args.valid
        \/ ~seed_args.has_collection
     THEN /\ seed_pc' = "raised"
          /\ seed_result' = [err |-> "DatabaseSeedError"]
     ELSE IF Len(seed_args.documents) = 0
     THEN /\ seed_pc' = "done"
          /\ seed_result' = [err |-> "none", successful |-> 0, failed |-> 0]
     ELSE /\ seed_pc' = "batch"
          /\ UNCHANGED seed_result
  /\ UNCHANGED <<batch_size, max_retries, seed_args, batch_start, attempt,
                 successful, failed, attempts, except_seed>>

batch_end == Min(batch_start + batch_size, Len(seed_args.documents))
batch_ids == SubSeq(seed_args.ids, batch_start + 1, batch_end)

\* the loop of seed_collection giving up at the first failed batch and
\* counting the documents not yet written as failed
batch_done_giving_up(batch_success) ==
  LET size == batch_end - batch_start
      good == IF batch_success THEN successful + size ELSE successful
      bad == IF batch_success THEN failed
             ELSE failed + (Len(seed_args.documents) - batch_start)
  IN /\ successful' = good
     /\ failed' = bad
     /\ attempt' = 0
     /\ batch_start' = batch_start + batch_size
     /\ IF batch_success
           /\ batch_start + batch_size < Len(seed_args.documents)
        THEN UNCHANGED <<seed_pc, seed_result>>
        ELSE /\ seed_pc' = "done"
             /\ seed_result' = [err |-> "none", successful |-> good,
                                failed |-> bad]

\* _process_batch has returned batch_success: the counters are updated and
\* the loop of seed_collection goes to the next batch or returns
batch_done(batch_success) ==
  LET size == batch_end - batch_start
      good == IF batch_success THEN successful + size ELSE successful
      bad == IF batch_success THEN failed ELSE failed + size
  IN /\ successful' = good
     /\ failed' = bad
     /\ attempt' = 0
     /\ batch_start' = batch_start + batch_size
     /\ IF batch_start + batch_size < Len(seed_args.documents)
        THEN UNCHANGED <<seed_pc, seed_result>>
        ELSE /\ seed_pc' = "done"
             /\ seed_result' = [err |-> "none", successful |-> good,
                                failed |-> bad]

\* the retry loop of _process_batch with one attempt fewer
process_batch_attempt_short ==
  /\ seed_pc = "batch"
  /\ attempt <= max_retries
  /\ \E ok \in BOOLEAN :
       /\ attempts' = Append(attempts,
                        [op |-> IF seed_args.upsert THEN "upsert" ELSE "add",
                         batch_start |-> batch_start, attempt |-> attempt,
                         ids |-> batch_ids, ok |-> ok])
       /\ IF ok THEN batch_done(TRUE)
          ELSE IF attempt + 1 < max_retries
          THEN /\ attempt' = attempt + 1
               /\ UNCHANGED <<seed_pc, batch_start, successful, failed,
                              seed_result>>
          ELSE batch_done(FALSE)
  /\ UNCHANGED <<batch_size, max_retries, seed_args, except_seed>>

\* one turn of the retry loop of _process_batch: a write attempt that the
\* collection takes (ok) or answers with an exception
process_batch_attempt ==
  /\ seed_pc = "batch"
  /\ attempt <= max_retries
  /\ \E ok \in BOOLEAN :
       /\ attempts' = Append(attempts,
                        [op |-> IF seed_args.upsert THEN "upsert" ELSE "add",
                         batch_start |-> batch_start, attempt |-> attempt,
                         ids |-> batch_ids, ok |-> ok])
       /\ IF ok THEN batch_done(TRUE)
          ELSE IF attempt < max_retries
          THEN /\ attempt' = attempt + 1
               /\ UNCHANGED <<seed_pc, batch_start, successful, failed,
                              seed_result>>
          ELSE batch_done(FALSE)
  /\ UNCHANGED <<batch_size, max_retries, seed_args, except_seed>>

NextSeed ==
  \/ seed_collection_begin
  \/ process_batch_attempt

SpecSeed == InitSeed /\ [][NextSeed]_vars

\* seed_collection is one sequential call: it keeps running
SpecSeedFair == SpecSeed /\ WF_vars(NextSeed)

\* ---------------------------------------------------- LinguisticsDB.upsert
\* (linguistics/database/chroma_client.py)  A metadata dict is "good" or
\* "bad" for validate_collection_metadata; env tells whether the
\* collection can be opened and whether it takes the write.
TruthyList(opt) == opt # None /\ opt[1] # <<>>

upsert(ids, documents, metadatas, env) ==
  IF ids = <<>> \/ documents = <<>>
  THEN [err |-> "none", value |-> <<>>, written |-> <<>>]
  ELSE IF Len(ids) # Len(documents)
  THEN [err |-> "ValueError", value |-> <<>>, written |-> <<>>]
  ELSE IF TruthyList(metadatas) /\ Len(metadatas[1]) # Len(documents)
  THEN [err |-> "ValueError", value |-> <<>>, written |-> <<>>]
  ELSE IF TruthyList(metadatas)
          /\ \E k \in 1..Len(metadatas[1]) : metadatas[1][k] = "bad"
  THEN [err |-> "ValueError", value |-> <<>>, written |-> <<>>]
  ELSE IF ~env.collection \/ ~env.write
  THEN [err |-> "LinguisticsDBError", value |-> <<>>, written |-> <<>>]
  ELSE [err |-> "none", value |-> ids, written |-> ids]

UpsertIds == {<<>>} \cup SeqsUpTo({"a", "b"}, MaxUpsert)
UpsertDocuments == {<<>>} \cup SeqsUpTo({"x"}, MaxUpsert)
UpsertMetadatas ==
  {None, Some(<<>>)}
  \cup {Some(m) : m \in SeqsUpTo({"good", "bad"}, MaxUpsert)}
UpsertEnvs ==
  {[collection |-> FALSE, write |-> TRUE],
   [collection |-> TRUE, write |-> FALSE],
   [collection |-> TRUE, write |-> TRUE]}

InitUpsert ==
  /\ ChunkerIdle
  /\ ApiIdle
  /\ RetrieverIdle
  /\ ServiceIdle

call_upsert ==
  /\ u_call = <<>>
  /\ \E ids \in UpsertIds, documents \in UpsertDocuments,
        metadatas \in UpsertMetadatas, env \in UpsertEnvs :
       u_call' = [ids |-> ids, documents |-> documents,
                  metadatas |-> metadatas, env |-> env,
                  out |-> upsert(ids, documents, metadatas, env)]
  /\ UNCHANGED except_u_call

SpecUpsert == InitUpsert /\ [][call_upsert]_vars

\* ------------------------------------- EmbeddingService._embed_with_retry
\* (linguistics/database/embeddings.py)  Messages are sequences of
\* characters, so that str.lower() and the `in` test are computed.
UpperToLower ==
  [A |-> "a", B |-> "b", C |-> "c", D |-> "d", E |-> "e", F |-> "f",
   G |-> "g", H |-> "h", I |-> "i", J |-> "j", K |-> "k", L |-> "l",
   M |-> "m", N |-> "n", O |-> "o", P |-> "p", Q |-> "q", R |-> "r",
   S |-> "s", T |-> "t", U |-> "u", V |-> "v", W |-> "w", X |-> "x",
   Y |-> "y", Z |-> "z"]

lower(str) ==
  [k \in 1..Len(str) |->
     IF str[k] \in DOMAIN UpperToLower THEN UpperToLower[str[k]] ELSE str[k]]

\* needle in haystack
in(needle, haystack) ==
  \E k \in 0..(Len(haystack) - Len(needle)) :
    \A j \in 1..Len(needle) : haystack[k + j] = needle[j]

API_key == <<"A", "P", "I", " ", "k", "e", "y">>
permission == <<"p", "e", "r", "m", "i", "s", "s", "i", "o", "n">>

\* what genai.embed_content does on one attempt
Embedding(v) == [kind |-> "embedding", v |-> v]
MissingField == [kind |-> "missing", v |-> <<>>]
NotAList == [kind |-> "not_list", v |-> <<>>]
Raises(msg) == [kind |-> "raises", v |-> msg]

\* str(e) of the exception an attempt ends with; the two EmbeddingError
\* messages built in the try block start with "Invalid"
Invalid == <<"I", "n", "v", "a", "l", "i", "d">>
str_e(outcome) == IF outcome.kind = "raises" THEN outcome.v ELSE Invalid

\* "Don't retry on certain errors"
dont_retry(e) == in(API_key, lower(e)) \/ in(permission, lower(e))

\* for attempt in range(self.max_retries + 1); env[attempt + 1] is what
\* the API does on that attempt
RECURSIVE embed_loop(_, _, _)
embed_loop(n, retries, env) ==
  IF n >= retries + 1
  THEN [err |-> "EmbeddingError", value |-> <<>>, attempts |-> n]
  ELSE IF env[n + 1].kind = "embedding"
  THEN [err |-> "none", value |-> env[n + 1].v, attempts |-> n + 1]
  ELSE IF dont_retry(str_e(env[n + 1]))
  THEN [err |-> "EmbeddingError", value |-> <<>>, attempts |-> n + 1]
  ELSE embed_loop(n + 1, retries, env)

embed_with_retry(retries, env) == embed_loop(0, retries, env)

Messages ==
  {API_key, lower(API_key),
   <<"P", "e", "r", "m", "i", "s", "s", "i", "o", "n">>, permission,
   <<"t", "i", "m", "e", "o", "u", "t">>}
AttemptOutcomes ==
  {Embedding(<<1>>), Embedding(<<2>>), MissingField, NotAList}
  \cup {Raises(m) : m \in Messages}

InitEmbed ==
  /\ ChunkerIdle
  /\ ApiIdle
  /\ RetrieverIdle
  /\ ServiceIdle

call_embed_with_retry ==
  /\ e_call = <<>>
  /\ \E retries \in 0..MaxRetries :
       \E env \in [1..(retries + 1) -> AttemptOutcomes] :
         e_call' = [max_retries |-> retries, env |-> env,
                    out |-> embed_with_retry(retries, env)]
  /\ UNCHANGED except_e_call

SpecEmbed == InitEmbed /\ [][call_embed_with_retry]_vars

\* ------------------------------------------------------------ MemoryService
\* (linguistics/memory/memory_service.py)  self.conversations maps an id
\* to a dict with the keys "history" and "context", either of which may
\* be missing.
DictDel(d, key) == [k \in DOMAIN d \ {key} |-> d[k]]

\* d.get(key, default)
DictGet(d, key, default) == IF key \in DOMAIN d THEN d[key] ELSE default

\* history[-limit:] for limit > 0
LastN(history, limit) ==
  IF limit >= Len(history) THEN history
  ELSE SubSeq(history, Len(history) - limit + 1, Len(history))

MemMessages == {"m1", "m2"}
MemContexts == {<<"k">>}

InitMemory ==
  /\ ChunkerIdle
  /\ ApiIdle
  /\ RetrieverIdle
  /\ ServiceIdle

MemoryReturned(op, id, arg, e, value) ==
  m_last' = [op |-> op, id |-> id, arg |-> arg, err |-> e, value |-> value]

get_conversation_context ==
  /\ \E id \in MemIds :
       MemoryReturned("get_conversation_context", id, <<>>, "none",
                      IF id \notin DOMAIN conversations THEN <<>>
                      ELSE DictGet(conversations[id], "context", <<>>))
  /\ UNCHANGED <<conversations, m_added>>
  /\ UNCHANGED except_memory

store_conversation_context ==
  /\ \E id \in MemIds, context \in MemContexts :
       LET entry == IF id \notin DOMAIN conversations THEN EmptyDict
                    ELSE conversations[id]
       IN /\ conversations' =
               DictSet(conversations, id, DictSet(entry, "context", context))
          /\ MemoryReturned("store_conversation_context", id, context,
                            "none", <<>>)
  /\ UNCHANGED m_added
  /\ UNCHANGED except_memory

get_conversation_history ==
  /\ \E id \in MemIds, limit \in 0..MaxLimit :
       LET history == IF id \notin DOMAIN conversations THEN <<>>
                      ELSE DictGet(conversations[id], "history", <<>>)
       IN MemoryReturned("get_conversation_history", id, limit, "none",
                         IF limit > 0 THEN LastN(history, limit)
                         ELSE history)
  /\ UNCHANGED <<conversations, m_added>>
  /\ UNCHANGED except_memory

\* the entry add_conversation_message finds or creates
add_conversation_message_entry(id) ==
  IF id \notin DOMAIN conversations
  THEN [history |-> <<>>, context |-> <<>>]
  ELSE conversations[id]

add_conversation_message ==
  /\ \E id \in MemIds, message \in MemMessages :
       LET entry == add_conversation_message_entry(id)
       IN /\ Len(m_added[id]) < MaxHistory
          /\ IF "history" \notin DOMAIN entry
             THEN /\ MemoryReturned("add_conversation_message", id, message,
                                    "KeyError", <<>>)
                  /\ UNCHANGED <<conversations, m_added>>
             ELSE /\ conversations' =
                       DictSet(conversations, id,
                               DictSet(entry, "history",
                                       Append(entry.history, message)))
                  /\ m_added' = [m_added EXCEPT ![id] = Append(@, message)]
                  /\ MemoryReturned("add_conversation_message", id, message,
                                    "none", <<>>)
  /\ UNCHANGED except_memory

clear_conversation ==
  /\ \E id \in MemIds :
       /\ conversations' = IF id \in DOMAIN conversations
                           THEN DictDel(conversations, id)
                           ELSE conversations
       /\ m_added' = [m_added EXCEPT ![id] = <<>>]
       /\ MemoryReturned("clear_conversation", id, <<>>, "none", <<>>)
  /\ UNCHANGED except_memory

NextMemory ==
  \/ get_conversation_context
  \/ store_conversation_context
  \/ get_conversation_history
  \/ add_conversation_message
  \/ clear_conversation

SpecMemory == InitMemory /\ [][NextMemory]_vars

\* ------------------------------------------------------- ConversationMemory
\* (linguistics/memory/conversation_memory.py)  One user. A message is
\* its content; the store keeps a session's messages in the order written
\* and each call finds the store answering (ok) or failing.
DefaultLimit == 50

\* the first n rows: collection.get(limit=n)
FirstN(rows, n) == IF n >= Len(rows) THEN rows ELSE SubSeq(rows, 1, n)

ConvContents == {"a", "b"}
ConvLimits == {None} \cup {Some(n) : n \in 0..MaxLimit}

InitConv ==
  /\ ChunkerIdle
  /\ ApiIdle
  /\ RetrieverIdle
  /\ SearchCallsIdle
  /\ SeedIdle
  /\ u_call = <<>>
  /\ e_call = <<>>
  /\ MemoryIdle
  /\ session_cache = <<>>
  /\ persisted \in [Sessions -> {<<>>} \cup SeqsUpTo(ConvContents, MaxStored)]
  /\ cm_last = NoMemoryCall

ConvReturned(op, session, arg, ok, e, value) ==
  cm_last' = [op |-> op, session |-> session, arg |-> arg, ok |-> ok,
              err |-> e, value |-> value]

add_message ==
  /\ \E session_id \in Sessions, text \in ConvContents, ok \in BOOLEAN :
       LET cached == DictGet(session_cache, session_id, <<>>)
       IN /\ Len(cached) <= MaxStored
          /\ Len(persisted[session_id]) <= MaxStored
          /\ session_cache' =
               DictSet(session_cache, session_id, Append(cached, text))
          /\ persisted' =
               IF ok THEN [persisted EXCEPT ![session_id] = Append(@, text)]
               ELSE persisted
          /\ ConvReturned("add_message", session_id, text, ok,
                          IF ok THEN "none" ELSE "LinguisticsDBError", <<>>)
  /\ UNCHANGED except_conv

conv_get_conversation_history ==
  /\ \E session_id \in Sessions, limit \in ConvLimits, ok \in BOOLEAN :
       IF session_id \in DOMAIN session_cache
       THEN LET history == session_cache[session_id]
            IN /\ ConvReturned("get_conversation_history", session_id,
                               limit, ok, "none",
                               IF TruthyInt(limit)
                               THEN LastN(history, limit[1]) ELSE history)
               /\ UNCHANGED session_cache
       ELSE IF ~ok
       THEN /\ ConvReturned("get_conversation_history", session_id, limit,
                            ok, "none", <<>>)
            /\ UNCHANGED session_cache
       ELSE LET history ==
                  FirstN(persisted[session_id],
                         IF TruthyInt(limit) THEN limit[1] ELSE DefaultLimit)
            IN /\ session_cache' = DictSet(session_cache, session_id, history)
               /\ ConvReturned("get_conversation_history", session_id,
                               limit, ok, "none", history)
  /\ UNCHANGED persisted
  /\ UNCHANGED except_conv

clear_session ==
  /\ \E session_id \in Sessions, ok \in BOOLEAN :
       /\ session_cache' = IF session_id \in DOMAIN session_cache
                           THEN DictDel(session_cache, session_id)
                           ELSE session_cache
       /\ persisted' = IF ok THEN [persisted EXCEPT ![session_id] = <<>>]
                       ELSE persisted
       /\ ConvReturned("clear_session", session_id, <<>>, ok,
                       IF ok THEN "none" ELSE "LinguisticsDBError", <<>>)
  /\ UNCHANGED except_conv

NextConv ==
  \/ add_message
  \/ conv_get_conversation_history
  \/ clear_session

SpecConv == InitConv /\ [][NextConv]_vars

\* ------------------------------------------------------------ properties
TokenMode == ~respect_structure /\ pc \in {"tokens", "done", "raised"}

\* C1: every chunk emitted by chunk_content, in structure-aware mode and in
\* token-only mode, has token_count <= max_tokens
C1_TokenCountWithinMax ==
  \A k \in 1..Len(chunks) : chunks[k].token_count <= max_tokens

Ceil(a, b) == (a + b - 1) \div b

\* C2: token-only mode, min_tokens <= max_tokens: every emitted window after
\* the first starts max(1, max_tokens - overlap_tokens) tokens after the
\* previous emitted one, the window that reaches the end of the token stream
\* is the last one emitted, and a finished run over N > overlap_tokens
\* tokens with overlap_tokens < max_tokens has emitted
\* ceil((N - overlap_tokens) / (max_tokens - overlap_tokens)) windows
C2_WindowStride ==
  (TokenMode /\ min_tokens <= max_tokens) =>
    /\ \A k \in 2..Len(windows) :
         windows[k][1] =
           windows[k - 1][1] + Max(1, max_tokens - overlap_tokens)
    /\ \A k \in 1..Len(windows) :
         windows[k][2] = Len(tokens) => k = Len(windows)
    /\ (pc = "done" /\ overlap_tokens < max_tokens
        /\ Len(tokens) > overlap_tokens) =>
         Len(windows) = Ceil(Len(tokens) - overlap_tokens,
                             max_tokens - overlap_tokens)

\* C3: token-only mode: every emitted chunk other than the last one has
\* token_count >= min_tokens
C3_OnlyLastBelowMin ==
  TokenMode =>
    \A k \in 1..(Len(chunks) - 1) : chunks[k].token_count >= min_tokens

\* C4: every emitted chunk's token_count equals the tokenizer's count of the
\* chunk's own content, also when the content is several buffered paragraphs
\* joined by a blank line
C4_TokenCountIsCountOfContent ==
  \A k \in 1..Len(chunks) :
    chunks[k].token_count = count_tokens(chunks[k].content)

IsHeadingIndex(h) == h \in 1..Len(structure) /\ structure[h].type = "heading"

\* no chunk holds entries from both sides of a heading, a heading's chunk
\* holds the heading alone, and chunks follow the order of the document
SeparatedByHeadings ==
  /\ \A k \in 1..Len(chunk_elements) : \A h \in 1..Len(structure) :
       IsHeadingIndex(h) =>
         \/ chunk_elements[k] = <<h>>
         \/ \A e \in 1..Len(chunk_elements[k]) : chunk_elements[k][e] < h
         \/ \A e \in 1..Len(chunk_elements[k]) : chunk_elements[k][e] > h
  /\ \A j \in 1..Len(chunk_elements) : \A k \in 1..Len(chunk_elements) :
       (j < k /\ Len(chunk_elements[j]) = 1
        /\ IsHeadingIndex(chunk_elements[j][1])) =>
         \A e \in 1..Len(chunk_elements[k]) :
           chunk_elements[k][e] > chunk_elements[j][1]

\* C5: when a heading is reached, the paragraphs accumulated so far are
\* emitted as one content chunk before the heading's chunk, the heading's
\* chunk holds the title alone with chunk_type "heading", the buffer is
\* empty afterwards, and no text from before a heading shares a chunk with
\* the heading or appears in a chunk after it
C5_HeadingFlushesBuffer ==
  /\ last.op = "heading" =>
       /\ pc # "raised"
       /\ current_chunk_content = <<>>
       /\ Len(chunks) >= 1
       /\ chunks[Len(chunks)].content = last.element
       /\ chunks[Len(chunks)].metadata.chunk_type = "heading"
       /\ last.buffer # <<>> =>
            /\ Len(chunks) >= 2
            /\ chunks[Len(chunks) - 1].content = Join(last.buffer, <<LF, LF>>)
            /\ chunks[Len(chunks) - 1].metadata.chunk_type = "content"
  /\ SeparatedByHeadings

\* C6: the k-th chunk emitted by a run, counting from 0 and counting heading
\* and content chunks together, has position k in its metadata and as the
\* numeric suffix of its id; the ids of one run are pairwise distinct
C6_PositionsCountEmittedChunks ==
  \A k \in 1..Len(chunks) :
    /\ chunks[k].metadata.position = k - 1
    /\ IdPosition(chunks[k].id) = k - 1
    /\ \A j \in 1..Len(chunks) : j # k => chunks[j].id # chunks[k].id

C6_Witness ==
  /\ pc = "done"
  /\ Len(chunks) >= 3
  /\ \E j \in 1..Len(chunks) : chunks[j].metadata.chunk_type = "heading"
  /\ \E j \in 2..Len(chunks) : chunks[j].metadata.chunk_type = "content"

Suffix(seq, n) == SubSeq(seq, Len(seq) - n + 1, Len(seq))

\* the longest run of trailing entries whose token counts sum to <= budget
LongestTail(buffer, budget) ==
  LET fits == {n \in 0..Len(buffer) : SumTokens(Suffix(buffer, n)) <= budget}
      n == CHOOSE m \in fits : \A o \in fits : o <= m
  IN Suffix(buffer, n)

\* the overflow step flushed a non-empty buffer and overlap is configured
OverflowFlushed ==
  /\ last.op = "overflow"
  /\ pc # "raised"
  /\ overlap_tokens > 0
  /\ last.buffer # <<>>

\* C7: after a flush caused by a paragraph that would push the buffer past
\* max_tokens, with overlap_tokens > 0, the new buffer is the longest run of
\* trailing paragraphs of the flushed buffer with at most overlap_tokens
\* tokens in total, in their order, followed by the new paragraph; it starts
\* empty when the last flushed paragraph alone exceeds overlap_tokens
C7_OverlapSeedsNewBuffer ==
  OverflowFlushed =>
    /\ current_chunk_content =
         LongestTail(last.buffer, overlap_tokens) \o <<last.element>>
    /\ count_tokens(last.buffer[Len(last.buffer)]) > overlap_tokens =>
         current_chunk_content = <<last.element>>

C7_Witness ==
  /\ OverflowFlushed
  /\ Len(last.buffer) = 2
  /\ current_chunk_content = <<last.buffer[2], last.element>>

\* C8: chunking the same content again with the same configuration yields
\* the same chunk ids in the same order
C8_RechunkGivesSameIds ==
  run = 2 =>
    /\ Len(chunks) <= Len(first_ids)
    /\ ChunkIds(chunks) = SubSeq(first_ids, 1, Len(chunks))
    /\ pc \in {"done", "raised"} => ChunkIds(chunks) = first_ids

C8_Witness ==
  /\ run = 2
  /\ pc = "done"
  /\ respect_structure
  /\ Len(chunks) >= 2

SameButPosition(a, b) ==
  a.content = b.content /\ a.chapter = b.chapter /\ a.position # b.position

SameButChapter(a, b) ==
  a.content = b.content /\ a.position = b.position /\ a.chapter # b.chapter

\* C9: equal (content, position, chapter) give equal ids, and changing only
\* position or only chapter gives a different id
C9_IdChangesWithPositionOrChapter ==
  Len(id_calls) = 2 =>
    LET a == id_calls[1]
        b == id_calls[2]
    IN /\ (a.content = b.content /\ a.position = b.position
           /\ a.chapter = b.chapter) => a.id = b.id
       /\ SameButPosition(a, b) => a.id # b.id
       /\ SameButChapter(a, b) => a.id # b.id

\* C9 (amended): equal triples give equal ids; changing only position gives
\* a different id; changing only chapter gives a different id when at least
\* one of the two chapters is a non-empty string
C9_IdChangesWithPositionOrNamedChapter ==
  Len(id_calls) = 2 =>
    LET a == id_calls[1]
        b == id_calls[2]
    IN /\ (a.content = b.content /\ a.position = b.position
           /\ a.chapter = b.chapter) => a.id = b.id
       /\ SameButPosition(a, b) => a.id # b.id
       /\ (SameButChapter(a, b) /\ (Truthy(a.chapter) \/ Truthy(b.chapter)))
            => a.id # b.id

C9_Witness ==
  /\ Len(id_calls) = 2
  /\ SameButChapter(id_calls[1], id_calls[2])
  /\ id_calls[1].chapter = None
  /\ Truthy(id_calls[2].chapter)
  /\ id_calls[1].id # id_calls[2].id

\* C10: Chunk(...) with empty content, an empty id or token_count <= 0 fails
\* with a validation error, so every Chunk object that exists has non-empty
\* content, a non-empty id and token_count > 0
C10_InvalidChunkNeverConstructed ==
  /\ \A o \in objects :
       Len(o.content) > 0 /\ Len(o.id) > 0 /\ o.token_count > 0
  /\ (ctor_last.err # "none"
      /\ (Len(ctor_last.content) = 0 \/ Len(ctor_last.id) = 0
          \/ ctor_last.token_count <= 0)) => ctor_last.err = "ValueError"

C10_Witness ==
  /\ ctor_last.err = "ValueError"
  /\ ctor_last.token_count = 0
  /\ ctor_last.content = <<"x">>
  /\ ctor_last.id = <<"c">>
  /\ objects # {}

\* ---------------------------------------------------- retriever properties
SearchReturned == r_op = "search" /\ r_err = "none"

\* the rows the store handed back to the one query of a search call
StoreAnswer ==
  LET rows == db_env.nn[r_args.query].rows
  IN SubSeq(rows, 1, Min(db_calls[1].n_results, Len(rows)))

Similarity(row) == RatSub(One, row.distance)

AtOrAbove(rows) ==
  SelectSeq(rows,
            LAMBDA row : ~RatLess(Similarity(row), similarity_threshold))

\* C11: a search that returns has issued exactly one nearest-neighbour
\* query, and its results are exactly the rows of the store's answer whose
\* similarity 1 - distance is at least similarity_threshold, in the order
\* of the answer.
C11_SearchKeepsStoreOrderAboveThreshold ==
  SearchReturned =>
    /\ Len(db_calls) = 1
    /\ db_calls[1].op = "query"
    /\ LET expected == AtOrAbove(StoreAnswer)
       IN /\ Len(r_value) = Len(expected)
          /\ \A k \in 1..Len(expected) :
               /\ r_value[k].id = expected[k].id
               /\ r_value[k].similarity_score = Similarity(expected[k])

\* a search dropped a row below the threshold, kept one exactly at it, and
\* returned two results in ascending similarity as the store ranked them
C11_Witness ==
  /\ SearchReturned
  /\ Len(r_value) = 2
  /\ Len(StoreAnswer) = 3
  /\ RatLess(r_value[1].similarity_score, r_value[2].similarity_score)
  /\ r_value[1].similarity_score = similarity_threshold

NormalizeCalled == r_op = "_normalize_scores"

RatTimes(a, b) == Rat(a.num * b.num, a.den * b.den)

Lowest(results) ==
  CHOOSE s \in {results[k].similarity_score : k \in 1..Len(results)} :
    \A k \in 1..Len(results) : ~RatLess(results[k].similarity_score, s)

Highest(results) ==
  CHOOSE s \in {results[k].similarity_score : k \in 1..Len(results)} :
    \A k \in 1..Len(results) : ~RatLess(s, results[k].similarity_score)

\* C12: _normalize_scores leaves an empty list empty; on a non-empty list
\* it keeps every result and its similarity_score, sets every
\* normalized_score to 1.0 when all similarity scores are equal, and
\* otherwise to (similarity - min) / (max - min): 1.0 for the maximum, 0.0
\* for the minimum, and a value in [0,1] for every result.
C12_NormalizedScoresAreMinMaxScaled ==
  NormalizeCalled =>
    LET given == r_args.results
        n == Len(given)
    IN /\ Len(r_value) = n
       /\ \A k \in 1..n :
            /\ r_value[k].id = given[k].id
            /\ r_value[k].similarity_score = given[k].similarity_score
       /\ n > 0 =>
            LET lo == Lowest(given)
                hi == Highest(given)
            IN \A k \in 1..n :
                 LET s == given[k].similarity_score
                     norm == r_value[k].normalized_score
                 IN /\ lo = hi => norm = One
                    /\ lo # hi =>
                         /\ RatTimes(norm, RatSub(hi, lo)) = RatSub(s, lo)
                         /\ s = hi => norm = One
                         /\ s = lo => norm = Zero
                    /\ ~RatLess(norm, Zero)
                    /\ ~RatLess(One, norm)

\* three results with three different scores were normalized: one of them
\* lies strictly between 0.0 and 1.0
C12_Witness ==
  /\ NormalizeCalled
  /\ Len(r_value) = 3
  /\ \E k \in 1..3 : /\ RatLess(Zero, r_value[k].normalized_score)
                      /\ RatLess(r_value[k].normalized_score, One)
  /\ \E k \in 1..3 : r_value[k].normalized_score = Zero
  /\ \E k \in 1..3 : r_value[k].normalized_score = One

\* C13: a RetrievalResult constructed with an explicit normalized_score
\* keeps exactly that value, whatever value of [0,1] it is; constructed
\* without one, its normalized_score is its similarity_score.
C13_ExplicitNormalizedScoreKept ==
  r_op = "RetrievalResult" =>
    /\ r_value.similarity_score = r_args.similarity_score
    /\ r_value.normalized_score =
         (IF r_args.normalized_score # None
          THEN r_args.normalized_score[1]
          ELSE r_args.similarity_score)

\* only whitespace, or nothing at all
Blank(query) == \A k \in 1..Len(query) : query[k] = " "

\* C14: search with an empty or whitespace-only query raises ValueError,
\* whatever the threshold, max_results, the other arguments and the state
\* of the store, and has issued no call to the store.
C14_BlankQueryRejectedBeforeStore ==
  (r_op = "search" /\ Blank(r_args.query)) =>
    /\ r_err = "ValueError"
    /\ db_calls = <<>>

\* a whitespace-only query was rejected while the embedding service was
\* unavailable and filters, top_k and include_metadata were all given
C14_Witness ==
  /\ r_op = "search"
  /\ r_args.query = <<" ">>
  /\ r_args.filters # None
  /\ r_args.top_k = Some(1)
  /\ r_args.include_metadata # None
  /\ ~db_env.available
  /\ r_err = "ValueError"
  /\ db_calls = <<>>

\* what search returns for one query of the batch when called alone
\* against the same store
Alone(query) ==
  search(similarity_threshold, max_results, query, r_args.top_k,
         r_args.filters, None, db_env)

\* C15: bulk_search does not raise; the map it returns has exactly the
\* queries of the list as keys; a query whose search raises maps to the
\* empty list and every other query to the list search returns for it
\* alone, wherever the failing query stands in the list.
C15_BulkSearchIsolatesFailures ==
  r_op = "bulk_search" =>
    /\ r_err = "none"
    /\ DOMAIN r_value =
         {r_args.queries[k] : k \in 1..Len(r_args.queries)}
    /\ \A k \in 1..Len(r_args.queries) :
         LET query == r_args.queries[k]
         IN r_value[query] =
              (IF Alone(query).err = "none" THEN Alone(query).value
               ELSE <<>>)

\* the first query of a batch of two failed in the store and the second
\* one still got its result
C15_Witness ==
  /\ r_op = "bulk_search"
  /\ Len(r_args.queries) = 2
  /\ Alone(r_args.queries[1]).err = "LinguisticsDBError"
  /\ r_value[r_args.queries[1]] = <<>>
  /\ Len(r_value[r_args.queries[2]]) = 1
  /\ Len(db_calls) = 2

\* C16: with the embedding service unavailable (and search never passing
\* query_embeddings), search on a non-blank query raises
\* EmbeddingUnavailableError, which is not the ValueError of validation,
\* and returns nothing.
C16_SearchRaisesEmbeddingUnavailable ==
  (r_op = "search" /\ ~Blank(r_args.query) /\ ~db_env.available) =>
    /\ r_err = "EmbeddingUnavailableError"
    /\ r_err # "ValueError"
    /\ Len(db_calls) = 1

\* a search for "q" reached the store client while the embedding service
\* was unavailable
C16_Witness ==
  /\ r_op = "search"
  /\ r_args.query = <<"q">>
  /\ ~db_env.available
  /\ r_err = "EmbeddingUnavailableError"
  /\ db_calls # <<>>

\* C17: when the store call of get_by_id or get_by_filters fails, the
\* caller gets an exception, not the None or the empty list of a lookup
\* that matched nothing.
C17_StoreFailureIsRaised ==
  (r_op \in {"get_by_id", "get_by_filters"} /\ ~db_env.ok) =>
    r_err # "none"

\* the documents of the store that carry the id asked for
Held(doc_id) ==
  SelectSeq(db_env.rows, LAMBDA row : row.id = doc_id)

\* C18: get_by_id never raises and never issues a nearest-neighbour query.
\* When the store answers and holds no document with the id, it returns
\* None; when the store holds one, it returns a result with that id, the
\* document's text and metadata, and similarity_score = normalized_score
\* = 1.0.
C18_GetByIdNoneWhenMissing ==
  r_op = "get_by_id" =>
    /\ r_err = "none"
    /\ \A k \in 1..Len(db_calls) : db_calls[k].op # "query"
    /\ db_env.ok =>
         LET held == Held(r_args.doc_id)
         IN /\ held = <<>> => r_value = None
            /\ held # <<>> =>
                 /\ r_value # None
                 /\ r_value[1].id = r_args.doc_id
                 /\ r_value[1].content = OrEmpty(held[1].document)
                 /\ r_value[1].metadata = OrEmpty(held[1].metadata)
                 /\ r_value[1].similarity_score = One
                 /\ r_value[1].normalized_score = One

\* an id was looked up in a store that holds other documents only
C18_Witness ==
  /\ r_op = "get_by_id"
  /\ db_env.ok
  /\ Len(db_env.rows) = 2
  /\ Held(r_args.doc_id) = <<>>
  /\ r_value = None
  /\ r_err = "none"
  /\ Len(db_calls) = 1

\* the rows of the store's answer that a returning search kept
Kept == AtOrAbove(StoreAnswer)

\* C19: when include_metadata is given to search, empty list included,
\* the metadata of every result holds listed keys only; when it is not
\* given, every result has all the metadata the store returned for it.
C19_IncludeMetadataNarrowsMetadata ==
  SearchReturned =>
    \A k \in 1..Len(r_value) :
      IF r_args.include_metadata # None
      THEN \A key \in DOMAIN r_value[k].metadata :
             \E j \in 1..Len(r_args.include_metadata[1]) :
               r_args.include_metadata[1][j] = key
      ELSE r_value[k].metadata = OrEmpty(Kept[k].metadata)

FiltersCalled == r_op = "_build_where_clause"

\* position of a key in the filters map, 0 when absent
KeyIndex(items, key) ==
  IF \E k \in 1..Len(items) : items[k][1] = key
  THEN CHOOSE k \in 1..Len(items) : items[k][1] = key
  ELSE 0

SameKeyFilters == {"content_type", "language", "topic", "subtopic", "chapter"}

\* C20: _build_where_clause returns None for absent or empty filters (and
\* for filters holding unknown keys only); otherwise the clause holds an
\* equality under the same key for content_type, language, topic,
\* subtopic and chapter, a list under "$contains" for tags (a single value
\* wrapped into a one-element list), difficulty_level taken from whichever
\* of level and difficulty_level comes later in the map, and nothing else.
C20_WhereClauseMapping ==
  FiltersCalled =>
    LET filters == r_args.filters
        items == IF filters = None THEN <<>> ELSE filters[1]
        at(key) == KeyIndex(items, key)
        known == {k \in 1..Len(items) :
                    items[k][1] \in SameKeyFilters
                      \cup {"difficulty_level", "level", "tags"}}
    IN IF known = {} THEN r_value = None
       ELSE /\ r_value # None
            /\ LET where_clause == r_value[1]
               IN /\ DOMAIN where_clause \subseteq
                       SameKeyFilters \cup {"difficulty_level", "$contains"}
                  /\ \A key \in SameKeyFilters :
                       IF at(key) = 0 THEN key \notin DOMAIN where_clause
                       ELSE /\ key \in DOMAIN where_clause
                            /\ where_clause[key] = items[at(key)][2]
                  /\ IF at("tags") = 0
                     THEN "$contains" \notin DOMAIN where_clause
                     ELSE /\ "$contains" \in DOMAIN where_clause
                          /\ where_clause["$contains"].list
                          /\ where_clause["$contains"].v =
                               items[at("tags")][2].v
                  /\ IF at("level") = 0 /\ at("difficulty_level") = 0
                     THEN "difficulty_level" \notin DOMAIN where_clause
                     ELSE /\ "difficulty_level" \in DOMAIN where_clause
                          /\ where_clause["difficulty_level"] =
                               items[Max(at("level"),
                                         at("difficulty_level"))][2]

\* difficulty_level was given first and level after it: the clause carries
\* the value of level
C20_Witness ==
  /\ FiltersCalled
  /\ r_args.filters # None
  /\ Len(r_args.filters[1]) = 2
  /\ r_args.filters[1][1][1] = "difficulty_level"
  /\ r_args.filters[1][2][1] = "level"
  /\ r_value # None
  /\ r_value[1]["difficulty_level"] = r_args.filters[1][2][2]
  /\ r_value[1]["difficulty_level"] # r_args.filters[1][1][2]

\* ------------------------------------------ concurrent search properties
\* what the search of caller p returns when it runs alone on the retriever
SearchAlone(p) ==
  LET alone == search(similarity_threshold, max_results, s_args[p].query,
                      s_args[p].top_k, s_args[p].filters,
                      s_args[p].include_metadata, s_env)
  IN [err |-> alone.err, value |-> alone.value]

\* C21: whatever the interleaving of two searches on one retriever at
\* their store round trips, each caller gets what its search returns (or
\* raises) when run alone.
C21_ConcurrentSearchesAsIfAlone ==
  \A p \in Callers : s_pc[p] = "done" => s_out[p] = SearchAlone(p)

\* caller 1 and caller 2 both sent their query before either got an
\* answer; they asked for different numbers of results and both returned
\* results
C21_Witness ==
  /\ s_trace = <<1, 2, 1, 2>>
  /\ \A p \in Callers : s_pc[p] = "done" /\ s_out[p].err = "none"
  /\ s_request[1].n_results # s_request[2].n_results
  /\ Len(s_out[1].value) = 2
  /\ Len(s_out[2].value) = 1

\* ------------------------------------------------------ seeder properties
SeedReturned == seed_pc = "done"

\* the first index of every batch of the documents given
BatchStarts ==
  {b \in 0..(Len(seed_args.documents) - 1) : b % batch_size = 0}

AttemptsOn(b) ==
  SelectSeq(attempts, LAMBDA a : a.batch_start = b)

Written ==
  {d \in 1..Len(seed_args.documents) :
     \E k \in 1..Len(attempts) :
       /\ attempts[k].ok
       /\ \E j \in 1..Len(attempts[k].ids) : attempts[k].ids[j] = d}

FinishedBatches ==
  {b \in BatchStarts : seed_pc = "done" \/ b < batch_start}

RetryDiscipline ==
  /\ \A j, k \in 1..Len(attempts) :
       j < k => attempts[j].batch_start <= attempts[k].batch_start
  /\ \A b \in BatchStarts :
       LET on == AttemptsOn(b)
       IN /\ Len(on) <= max_retries + 1
          /\ \A k \in 1..Len(on) :
               /\ on[k].attempt = k - 1
               /\ on[k].ok => k = Len(on)
          /\ b \in FinishedBatches =>
               /\ Len(on) >= 1
               /\ ~on[Len(on)].ok => Len(on) = max_retries + 1
  /\ failed > 0 =>
       \E b \in FinishedBatches :
         /\ Len(AttemptsOn(b)) = max_retries + 1
         /\ \A k \in 1..(max_retries + 1) : ~AttemptsOn(b)[k].ok

SeedFinished == seed_pc \in {"done", "raised"}

\* C24: every batch gets at least one and at most max_retries + 1 write
\* attempts, none after the first that succeeds; a batch is reported
\* failed only after max_retries + 1 failed attempts; attempts go through
\* the batches in order; and seed_collection always comes to an end, even
\* when every attempt fails.
C24_BoundedRetriesAndTermination ==
  [] RetryDiscipline /\ <> SeedFinished

\* seed_collection returned after every attempt on both batches failed:
\* max_retries + 1 attempts on each
C24_Witness ==
  /\ SeedReturned
  /\ max_retries = 2
  /\ Len(seed_args.documents) = 3
  /\ batch_size = 2
  /\ Len(attempts) = 6
  /\ \A k \in 1..6 : ~attempts[k].ok
  /\ seed_result.failed = 3

\* ------------------------------------------------------ upsert properties
\* C23: upsert raises ValueError whenever ids and documents differ in
\* length, one of them being empty included, and then writes nothing;
\* when it returns, it returns the ids it was given.
C23_UpsertRejectsLengthMismatch ==
  u_call # <<>> =>
    /\ Len(u_call.ids) # Len(u_call.documents) =>
         /\ u_call.out.err = "ValueError"
         /\ u_call.out.written = <<>>
    /\ u_call.out.err = "none" => u_call.out.value = u_call.ids

\* --------------------------------------------- _embed_with_retry properties
Succeeds(k) == e_call.env[k].kind = "embedding"
FirstSuccess(k) == Succeeds(k) /\ \A j \in 1..(k - 1) : ~Succeeds(j)
\* the message of attempt k mentions the API key or a permission problem
Mentions(k) ==
  LET e == lower(str_e(e_call.env[k]))
  IN  ~Succeeds(k) /\ (in(lower(API_key), e) \/ in(permission, e))
\* attempts 1..k - 1 neither succeed nor end the retries
Reaches(k) == \A j \in 1..(k - 1) : ~Succeeds(j) /\ ~Mentions(j)

\* C25: _embed_with_retry returns the embedding of the first successful
\* attempt, makes at most max_retries + 1 attempts, makes no attempt after
\* one that failed mentioning the API key or a permission problem, and
\* raises EmbeddingError whenever no attempt it made succeeded.
C25_RetryStopsOnKeyOrPermissionError ==
  e_call # <<>> =>
    /\ e_call.out.attempts <= e_call.max_retries + 1
    /\ \A k \in DOMAIN e_call.env :
         /\ Reaches(k) /\ Succeeds(k) =>
              /\ e_call.out.err = "none"
              /\ e_call.out.value = e_call.env[k].v
              /\ e_call.out.attempts = k
         /\ Reaches(k) /\ Mentions(k) =>
              /\ e_call.out.err = "EmbeddingError"
              /\ e_call.out.attempts = k
    /\ (\A k \in DOMAIN e_call.env : Reaches(k) => ~Succeeds(k)) =>
         e_call.out.err = "EmbeddingError"

\* ------------------------------------------- structure-aware run properties
\* C26: structure-aware chunk_content on a non-empty document never raises,
\* and every chunk it emits has non-empty content, a positive token_count
\* and metadata holding chunk_type and position.
C26_StructureRunNeverRaises ==
  respect_structure =>
    /\ pc # "raised"
    /\ \A k \in 1..Len(chunks) :
         /\ Len(chunks[k].content) > 0
         /\ chunks[k].token_count > 0
         /\ {"chunk_type", "position"} \subseteq DOMAIN chunks[k].metadata

\* the paragraphs of the outline that chunk k holds
ParagraphsOf(k) ==
  {e \in {chunk_elements[k][j] : j \in 1..Len(chunk_elements[k])} :
     structure[e].type = "paragraph"}

\* C27: a content chunk emitted in structure-aware mode is labelled with
\* the chapter and the section parse_markdown_structure gave to every
\* paragraph the chunk holds.
C27_ChunkLabelledAsItsParagraphs ==
  respect_structure =>
    \A k \in 1..Len(chunks) :
      chunks[k].metadata.chunk_type = "content" =>
        \A e \in ParagraphsOf(k) :
          /\ metadata_chapter(chunks[k].metadata) = structure[e].chapter
          /\ metadata_section(chunks[k].metadata) = structure[e].section

\* ----------------------------------------------- token-only run properties
\* one iteration of the while loop of _chunk_by_tokens
InTokenLoop == ~respect_structure /\ pc = "tokens"
WindowStartAdvances == (InTokenLoop /\ pc' = "tokens") => i' > i
TokenRunOver == pc \in {"done", "raised"}

\* C28: in token-only mode the window start strictly increases on every
\* iteration of the loop, emitted or skipped, and every run that entered
\* the loop ends, whatever max_tokens, min_tokens and overlap_tokens are.
C28_TokenChunkingTerminates ==
  /\ [][WindowStartAdvances]_vars
  /\ (InTokenLoop ~> TokenRunOver)

C28_Witness ==
  /\ ~respect_structure
  /\ pc = "done"
  /\ overlap_tokens >= max_tokens
  /\ min_tokens > max_tokens
  /\ Len(tokens) > max_tokens
  /\ Len(chunks) >= 1

\* ---------------------------------------------- MemoryService properties
\* C29: whatever store_conversation_context, add_conversation_message and
\* clear_conversation calls came before, add_conversation_message
\* succeeds, and get_conversation_history(id, limit) returns the last
\* `limit` messages added to id since its last clear, in the order added.
C29_AddSucceedsAndHistoryIsLastLimit ==
  /\ m_last.op = "add_conversation_message" => m_last.err = "none"
  /\ (m_last.op = "get_conversation_history" /\ m_last.arg > 0) =>
       /\ m_last.err = "none"
       /\ m_last.value = LastN(m_added[m_last.id], m_last.arg)

\* ----------------------------------------- ConversationMemory properties
\* C30: get_conversation_history(session) without a limit, the store
\* answering, returns exactly the messages persisted for the session,
\* whatever limited reads, adds on a store-only session or adds with a
\* failed store write came before.
C30_HistoryIsThePersistedOne ==
  (/\ cm_last.op = "get_conversation_history"
   /\ cm_last.arg = None
   /\ cm_last.ok) =>
    cm_last.value = persisted[cm_last.session]

====
